---- MODULE Spec2Model ----
(***************************************************************************)
(* A model of py-irclib's IRC line codec (src/irclib/parser.py), of its    *)
(* case-mapped String (src/irclib/util/string.py) and of match_mask        *)
(* (src/irclib/util/compare.py).                                           *)
(*                                                                         *)
(* The library is a set of pure parse / serialize functions.  A Python str *)
(* is modelled as a sequence of one-character strings, None as the empty   *)
(* sequence and a present optional value x as <<x>>.  Each function is an  *)
(* operator that computes what the code computes; the state machine is the *)
(* caller: it holds an input, applies one function per step and keeps the  *)
(* value returned.                                                         *)
(***************************************************************************)
EXTENDS Integers, Sequences, FiniteSets, TLC

VARIABLES
    pc,     \* what the caller has done so far
    text,   \* the text handed to a parse function
    kind,   \* the Python type of the line handed to Message.parse, or of the
            \* second operand of a Message comparison
    tag,    \* a MessageTag: [name, value, has_value]
    plist,  \* a ParamList: [items, has_trail]
    msg,    \* a Message: [raised, tags, prefix, command, parameters]; the left
            \* operand of a String comparison; the String a method is
            \* called on; the mask of match_mask
    out,    \* the text returned by a serializer; the result of a comparison
            \* or of bool()
    back    \* the value returned by parsing `out` or `text`; a constructed
            \* Prefix, Cap or TagList; the second operand of a comparison;
            \* the argument of a String method; the pattern of match_mask

vars == <<pc, text, kind, tag, plist, msg, out, back>>

-----------------------------------------------------------------------------
(* Bounds of the model. *)

\* longest text handed to the tag functions
MaxTagLen == 4
\* longest text handed to ParamList.parse
MaxParamText == 8
\* most parameters of a constructed ParamList
MaxParams == 2
\* longest parameter of a constructed ParamList
MaxParamLen == 2
\* size of the largest constructed Message: its characters, plus one for each
\* tag and each parameter
MaxMsgSize == 5
\* longest str line handed to Message.parse
MaxLineLen == 7
\* longest bytes line handed to Message.parse
MaxBytesLen == 3

-----------------------------------------------------------------------------
(* Python values. *)

\* All strings over alphabet A of at most n characters.
Str(A, n) == UNION {[1..k -> A] : k \in 0..n}

None == <<>>
Some(x) == <<x>>

\* str.startswith(c) for a one-character c
StartsWith(s, c) == Len(s) > 0 /\ s[1] = c

\* c in s
Contains(s, c) == \E i \in 1..Len(s) : s[i] = c

\* s[1:]
Rest(s) == SubSeq(s, 2, Len(s))

\* s[:-1] of a list
Front(s) == SubSeq(s, 1, Len(s) - 1)

\* s[-1] of a non-empty list
Last(s) == s[Len(s)]

\* str.find(c) + 1: the first position of c in s, 0 when absent
IndexOf(s, c) ==
    IF Contains(s, c) THEN CHOOSE i \in 1..Len(s) : s[i] = c /\ \A j \in 1..(i - 1) : s[j] # c
    ELSE 0

\* str.partition(c): (head, sep, tail) around the first c; (s, "", "") when absent
Partition(s, c) ==
    LET i == IndexOf(s, c)
    IN  IF i = 0 THEN [head |-> s, sep |-> <<>>, tail |-> <<>>]
        ELSE [head |-> SubSeq(s, 1, i - 1), sep |-> <<c>>, tail |-> SubSeq(s, i + 1, Len(s))]

\* str.split(c): the pieces between the occurrences of c (always at least one piece)
RECURSIVE Split(_, _)
Split(s, c) ==
    LET p == Partition(s, c)
    IN  IF p.sep = <<>> THEN <<s>> ELSE <<p.head>> \o Split(p.tail, c)

\* sep.join(parts) for a list of strings
RECURSIVE Join(_, _)
Join(sep, parts) ==
    IF Len(parts) = 0 THEN <<>>
    ELSE IF Len(parts) = 1 THEN parts[1]
    ELSE parts[1] \o sep \o Join(sep, Rest(parts))

\* filter(None, parts): the non-empty strings of a list
NonEmpty(parts) == SelectSeq(parts, LAMBDA p : p # <<>>)

LowerLetters == <<"a", "b", "c", "d", "e", "f", "g", "h", "i", "j", "k", "l", "m",
                  "n", "o", "p", "q", "r", "s", "t", "u", "v", "w", "x", "y", "z">>
UpperLetters == <<"A", "B", "C", "D", "E", "F", "G", "H", "I", "J", "K", "L", "M",
                  "N", "O", "P", "Q", "R", "S", "T", "U", "V", "W", "X", "Y", "Z">>

\* str.upper() of one character
UpperChar(c) ==
    IF \E i \in 1..26 : LowerLetters[i] = c
    THEN UpperLetters[CHOOSE i \in 1..26 : LowerLetters[i] = c]
    ELSE c

\* str.upper()
Upper(s) == [i \in 1..Len(s) |-> UpperChar(s[i])]

-----------------------------------------------------------------------------
(* Grammar constants, parser.py lines 40-68. *)

TAGS_SENTINEL == "@"
TAGS_SEP == ";"
TAG_VALUE_SEP == "="
PREFIX_SENTINEL == ":"
PREFIX_USER_SEP == "!"
PREFIX_HOST_SEP == "@"
PARAM_SEP == " "
TRAIL_SENTINEL == ":"

\* TAG_VALUE_ESCAPES, keyed by the character that follows the backslash
EscapeKeys == {"s", ":", "r", "n", "\\"}
TAG_VALUE_ESCAPES ==
    [k \in EscapeKeys |->
        CASE k = "s" -> " "
          [] k = ":" -> ";"
          [] k = "r" -> "\r"
          [] k = "n" -> "\n"
          [] k = "\\" -> "\\"]

\* TAG_VALUE_UNESCAPES: the inverted table, unescaped character -> escape letter
UnescapedChars == {TAG_VALUE_ESCAPES[k] : k \in EscapeKeys}
TAG_VALUE_UNESCAPES ==
    [c \in UnescapedChars |-> CHOOSE k \in EscapeKeys : TAG_VALUE_ESCAPES[k] = c]

-----------------------------------------------------------------------------
(* MessageTag *)

\* MessageTag.__init__
MessageTag(name, value, has_value) ==
    [name |-> name, value |-> value, has_value |-> has_value]

\* The loop of MessageTag.unescape that keeps the backslash of an unknown
\* escape (mutant)
RECURSIVE Mut_UnescapeFrom(_, _, _, _)
Mut_UnescapeFrom(value, i, new_value, escaped) ==
    IF i > Len(value) THEN new_value
    ELSE LET char == value[i]
         IN  IF escaped
             THEN Mut_UnescapeFrom(value, i + 1,
                      new_value \o (IF char \in EscapeKeys THEN <<TAG_VALUE_ESCAPES[char]>>
                                    ELSE <<"\\", char>>),
                      FALSE)
             ELSE IF char = "\\"
             THEN Mut_UnescapeFrom(value, i + 1, new_value, TRUE)
             ELSE Mut_UnescapeFrom(value, i + 1, Append(new_value, char), FALSE)

\* The loop of MessageTag.unescape from character i on, with its two locals.
RECURSIVE UnescapeFrom(_, _, _, _)
UnescapeFrom(value, i, new_value, escaped) ==
    IF i > Len(value) THEN new_value
    ELSE LET char == value[i]
         IN  IF escaped
             THEN UnescapeFrom(value, i + 1,
                      Append(new_value,
                             IF char \in EscapeKeys THEN TAG_VALUE_ESCAPES[char] ELSE char),
                      FALSE)
             ELSE IF char = "\\"
             THEN UnescapeFrom(value, i + 1, new_value, TRUE)
             ELSE UnescapeFrom(value, i + 1, Append(new_value, char), FALSE)

\* MessageTag.unescape
unescape(value) == UnescapeFrom(value, 1, <<>>, FALSE)

\* The escape table without its backslash entry (mutant)
Mut_EscapeChar(c) ==
    IF c \in UnescapedChars \ {"\\"} THEN <<"\\", TAG_VALUE_UNESCAPES[c]>> ELSE <<c>>

\* The escape table without its ";" entry (mutant)
Mut_EscapeChar_NoSemicolon(c) ==
    IF c \in UnescapedChars \ {";"} THEN <<"\\", TAG_VALUE_UNESCAPES[c]>> ELSE <<c>>

\* The text one character escapes to.
EscapeChar(c) ==
    IF c \in UnescapedChars THEN <<"\\", TAG_VALUE_UNESCAPES[c]>> ELSE <<c>>

\* MessageTag.escape
RECURSIVE escape(_)
escape(value) ==
    IF value = <<>> THEN <<>> ELSE EscapeChar(value[1]) \o escape(Rest(value))

\* MessageTag.parse
MessageTag_parse(t) ==
    LET p == Partition(t, TAG_VALUE_SEP)
        value == IF p.tail # <<>> THEN unescape(p.tail) ELSE p.tail
    IN  MessageTag(p.head, value, p.sep # <<>>)

\* MessageTag.__str__ without the has_value test (mutant)
Mut_MessageTag_str(self) ==
    IF self.value # <<>>
    THEN self.name \o <<TAG_VALUE_SEP>> \o escape(self.value)
    ELSE self.name

\* MessageTag.__str__ decided by the flag alone (mutant)
Mut_MessageTag_str_ByFlag(self) ==
    IF self.has_value
    THEN self.name \o <<TAG_VALUE_SEP>> \o escape(self.value)
    ELSE self.name

\* MessageTag.__str__
MessageTag_str(self) ==
    IF self.value # <<>> \/ self.has_value
    THEN self.name \o <<TAG_VALUE_SEP>> \o escape(self.value)
    ELSE self.name

-----------------------------------------------------------------------------
(* TagList: a dict name -> MessageTag, held as the list of its values in   *)
(* insertion order (the names are distinct).                               *)

\* dict.__setitem__ that moves an old key to the end (mutant)
Mut_DictSet(d, t) ==
    Append(SelectSeq(d, LAMBDA x : x.name # t.name), t)

\* dict.__setitem__: a new key is appended, an old key keeps its position
DictSet(d, t) ==
    IF \E i \in 1..Len(d) : d[i].name = t.name
    THEN [d EXCEPT ![CHOOSE i \in 1..Len(d) : d[i].name = t.name] = t]
    ELSE Append(d, t)

\* TagList.__init__: dict((tag.name, tag) for tag in tags)
RECURSIVE TagListFrom(_, _)
TagListFrom(d, tags) ==
    IF tags = <<>> THEN d ELSE TagListFrom(DictSet(d, tags[1]), Rest(tags))

TagList(tags) == TagListFrom(<<>>, tags)

\* TagList.parse
TagList_parse(t) ==
    LET segs == NonEmpty(Split(t, TAGS_SEP))
    IN  TagList([i \in 1..Len(segs) |-> MessageTag_parse(segs[i])])

\* TagList.__str__
TagList_str(self) ==
    Join(<<TAGS_SEP>>, [i \in 1..Len(self) |-> MessageTag_str(self[i])])

\* MessageTag.__eq__ that compares the flag as well (mutant)
Mut_MessageTag_eq(a, b) ==
    a.name = b.name /\ a.value = b.value /\ a.has_value = b.has_value

\* MessageTag.__eq__ between two tags
MessageTag_eq(a, b) == a.name = b.name /\ a.value = b.value

\* TagList.__eq__ between two tag lists: dict equality, by key, with MessageTag.__eq__
TagList_eq(a, b) ==
    /\ Len(a) = Len(b)
    /\ \A i \in 1..Len(a) : \E j \in 1..Len(b) : MessageTag_eq(a[i], b[j])

-----------------------------------------------------------------------------
(* Prefix *)

\* Prefix.__init__: None and "" both become ""
Prefix(nick, user, host) == [nick |-> nick, user |-> user, host |-> host]

\* Prefix.mask, which is Prefix.__str__
Prefix_str(self) ==
    self.nick
    \o (IF self.user # <<>> THEN <<PREFIX_USER_SEP>> \o self.user ELSE <<>>)
    \o (IF self.host # <<>> THEN <<PREFIX_HOST_SEP>> \o self.host ELSE <<>>)

(* PREFIX_RE = ^:?(?P<nick>.*?)(?:!(?P<user>.*?))?(?:@(?P<host>.*?))?$      *)
(* compiled without flags: "." matches any character but "\n", and "$"     *)
(* matches at the end of the text or just before a final "\n".  The        *)
(* operators below follow the backtracking order of the pattern: a lazy    *)
(* group takes the shortest run that lets the rest match, an optional      *)
(* group is tried before it is skipped.  Each returns the list of groups   *)
(* matched from position p on, or NoMatch.                                 *)

NoMatch == [ok |-> FALSE, user |-> <<>>, host |-> <<>>, nick |-> <<>>]

\* "." matches every character of t[p .. p+n-1]
DotRun(t, p, n) == \A i \in p..(p + n - 1) : t[i] # "\n"

\* "$" at position p
AtEnd(t, p) == p = Len(t) + 1 \/ (p = Len(t) /\ t[p] = "\n")

\* The shortest of the runs a lazy group can take.
Shortest(lens) == CHOOSE n \in lens : \A m \in lens : n <= m

\* (?:@(?P<host>.*?))?$ , given the runs the host can take after an "@" at p
HostGroup(t, p, lens) ==
    IF p <= Len(t) /\ t[p] = PREFIX_HOST_SEP /\ lens # {}
    THEN [NoMatch EXCEPT !.ok = TRUE, !.host = SubSeq(t, p + 1, p + Shortest(lens))]
    ELSE IF AtEnd(t, p) THEN [NoMatch EXCEPT !.ok = TRUE]
    ELSE NoMatch

\* (?:@(?P<host>.*?))?$
MatchHost(t, p) ==
    HostGroup(t, p, {n \in 0..(Len(t) - p) : DotRun(t, p + 1, n) /\ AtEnd(t, p + 1 + n)})

\* the user group with a run of n characters, followed by the host group
WithUser(t, p, n) == [MatchHost(t, p + 1 + n) EXCEPT !.user = SubSeq(t, p + 1, p + n)]

\* (?:!(?P<user>.*?))? , given the runs the user can take after a "!" at p
UserGroup(t, p, lens) ==
    IF p <= Len(t) /\ t[p] = PREFIX_USER_SEP /\ lens # {}
    THEN WithUser(t, p, Shortest(lens))
    ELSE MatchHost(t, p)

\* (?:!(?P<user>.*?))?  followed by the host group
MatchUser(t, p) ==
    UserGroup(t, p, {n \in 0..(Len(t) - p) :
                        DotRun(t, p + 1, n) /\ MatchHost(t, p + 1 + n).ok})

\* the nick group with a run of n characters, followed by the other groups
WithNick(t, p, n) == [MatchUser(t, p + n) EXCEPT !.nick = SubSeq(t, p, p + n - 1)]

\* (?P<nick>.*?) , given the runs the nick can take from p on
NickGroup(t, p, lens) ==
    IF lens # {} THEN WithNick(t, p, Shortest(lens)) ELSE NoMatch

\* (?P<nick>.*?)  followed by the user and host groups
MatchNick(t, p) ==
    NickGroup(t, p, {n \in 0..(Len(t) + 1 - p) :
                        DotRun(t, p, n) /\ MatchUser(t, p + n).ok})

\* ":?" takes a leading colon first, and gives it back only if nothing
\* matches after it
OptionalColon(t, after, without) ==
    IF StartsWith(t, ":") /\ after.ok THEN after ELSE without

\* PREFIX_RE.match(text)
PREFIX_RE_match(t) == OptionalColon(t, MatchNick(t, 2), MatchNick(t, 1))

\* Prefix.parse of a text that is not empty, given what PREFIX_RE.match gave
PrefixOfMatch(match) ==
    IF ~match.ok
    THEN [raised |-> TRUE, value |-> Prefix(<<>>, <<>>, <<>>)]
    ELSE [raised |-> FALSE, value |-> Prefix(match.nick, match.user, match.host)]

\* What Prefix.parse gives: a Prefix, or raised = TRUE for ParseError.
Prefix_parse(t) ==
    IF t = <<>> THEN [raised |-> FALSE, value |-> Prefix(<<>>, <<>>, <<>>)]
    ELSE PrefixOfMatch(PREFIX_RE_match(t))

-----------------------------------------------------------------------------
(* ParamList *)

\* ParamList.__init__
ParamList(items, has_trail) == [items |-> items, has_trail |-> has_trail]

\* The loop of ParamList.parse without "if arg" (mutant)
RECURSIVE Mut_ParseLoop(_, _)
Mut_ParseLoop(args, t) ==
    IF t = <<>> THEN ParamList(args, FALSE)
    ELSE IF t[1] = TRAIL_SENTINEL THEN ParamList(Append(args, Rest(t)), TRUE)
    ELSE LET p == Partition(t, PARAM_SEP)
         IN  Mut_ParseLoop(Append(args, p.head), p.tail)

\* The loop of ParamList.parse that does not set has_trail (mutant)
RECURSIVE Mut_ParseLoop_NoFlag(_, _)
Mut_ParseLoop_NoFlag(args, t) ==
    IF t = <<>> THEN ParamList(args, FALSE)
    ELSE IF t[1] = TRAIL_SENTINEL THEN ParamList(Append(args, Rest(t)), FALSE)
    ELSE LET p == Partition(t, PARAM_SEP)
         IN  Mut_ParseLoop_NoFlag(IF p.head # <<>> THEN Append(args, p.head) ELSE args,
                                  p.tail)

\* The while loop of ParamList.parse, with its locals args and text.
RECURSIVE ParseLoop(_, _)
ParseLoop(args, t) ==
    IF t = <<>> THEN ParamList(args, FALSE)
    ELSE IF t[1] = TRAIL_SENTINEL THEN ParamList(Append(args, Rest(t)), TRUE)
    ELSE LET p == Partition(t, PARAM_SEP)
         IN  ParseLoop(IF p.head # <<>> THEN Append(args, p.head) ELSE args, p.tail)

\* ParamList.parse
ParamList_parse(t) == ParseLoop(<<>>, t)

\* needs_trail without "not self[-1]" (mutant)
Mut_needs_trail(self) ==
    \/ Contains(Last(self.items), PARAM_SEP)
    \/ StartsWith(Last(self.items), TRAIL_SENTINEL)

\* needs_trail of ParamList.__str__
needs_trail(self) ==
    \/ Contains(Last(self.items), PARAM_SEP)
    \/ StartsWith(Last(self.items), TRAIL_SENTINEL)
    \/ Last(self.items) = <<>>

\* ParamList.__str__ that trusts the stored flag alone (mutant)
Mut_ParamList_str(self) ==
    IF self.items = <<>> THEN <<>>
    ELSE IF self.has_trail
    THEN Join(<<PARAM_SEP>>, Append(Front(self.items), <<TRAIL_SENTINEL>> \o Last(self.items)))
    ELSE Join(<<PARAM_SEP>>, self.items)

\* ParamList.__str__
ParamList_str(self) ==
    IF self.items = <<>> THEN <<>>
    ELSE IF self.has_trail \/ needs_trail(self)
    THEN Join(<<PARAM_SEP>>, Append(Front(self.items), <<TRAIL_SENTINEL>> \o Last(self.items)))
    ELSE Join(<<PARAM_SEP>>, self.items)

\* ParamList.__eq__ between two parameter lists: the items only
ParamList_eq(a, b) == a.items = b.items

-----------------------------------------------------------------------------
(* Message *)

\* Message.__init__ for components that are already TagList / Prefix / ParamList
\* values (or None); raised is TRUE only for the outcome of a parse that raised.
Message(tags, prefix, command, parameters) ==
    [raised |-> FALSE, tags |-> tags, prefix |-> prefix,
     command |-> command, parameters |-> parameters]

\* The outcome of a call that ends in ParseError: no Message is returned.
Raised ==
    [raised |-> TRUE, tags |-> None, prefix |-> None,
     command |-> <<>>, parameters |-> ParamList(<<>>, FALSE)]

\* A byte that is valid in no UTF-8 sequence (0xFF); every other unit of a
\* bytes line is the one-byte encoding of the character it names.
BadByte == "0xFF"

ByteKinds == {"bytes", "bytearray", "memoryview"}

\* bytes.decode(errors="ignore"): invalid bytes are dropped
Decode(data) == SelectSeq(data, LAMBDA b : b # BadByte)

\* Message.parse
Message_parse(k, line) ==
    LET t0 == IF k \in ByteKinds THEN Decode(line) ELSE line
        hasTags == StartsWith(t0, TAGS_SENTINEL)
        p1 == Partition(t0, PARAM_SEP)
        tags == IF hasTags THEN p1.head ELSE <<>>
        t1 == IF hasTags THEN p1.tail ELSE t0
        hasPrefix == StartsWith(t1, PREFIX_SENTINEL)
        p2 == Partition(t1, PARAM_SEP)
        prefix == IF hasPrefix THEN p2.head ELSE <<>>
        t2 == IF hasPrefix THEN p2.tail ELSE t1
        p3 == Partition(t2, PARAM_SEP)
        tags_obj == IF tags # <<>> THEN Some(TagList_parse(Rest(tags))) ELSE None
        parsed == Prefix_parse(Rest(prefix))
    IN  IF prefix # <<>> /\ parsed.raised THEN Raised
        ELSE Message(tags_obj,
                     IF prefix # <<>> THEN Some(parsed.value) ELSE None,
                     Upper(p3.head),
                     ParamList_parse(p3.tail))

\* Message.__str__ that tests the tags for truth instead of "is None", so
\* that an empty TagList is left out (mutant)
Mut_Message_str(self) ==
    LET tag_str == IF self.tags = None \/ self.tags = Some(<<>>) THEN <<>>
                   ELSE <<TAGS_SENTINEL>> \o TagList_str(self.tags[1])
        prefix_str == IF self.prefix = None THEN <<>>
                      ELSE <<PREFIX_SENTINEL>> \o Prefix_str(self.prefix[1])
        kept == (IF tag_str # <<>> THEN <<tag_str>> ELSE <<>>)
                \o (IF prefix_str # <<>> THEN <<prefix_str>> ELSE <<>>)
                \o (IF self.command # <<>> THEN <<self.command>> ELSE <<>>)
                \o (IF self.parameters.items # <<>>
                    THEN <<ParamList_str(self.parameters)>> ELSE <<>>)
    IN  Join(<<PARAM_SEP>>, kept)

\* Message.__str__
Message_str(self) ==
    LET tag_str == IF self.tags = None THEN <<>>
                   ELSE <<TAGS_SENTINEL>> \o TagList_str(self.tags[1])
        prefix_str == IF self.prefix = None THEN <<>>
                      ELSE <<PREFIX_SENTINEL>> \o Prefix_str(self.prefix[1])
        \* "if s" keeps a non-empty str and a non-empty list
        kept == (IF tag_str # <<>> THEN <<tag_str>> ELSE <<>>)
                \o (IF prefix_str # <<>> THEN <<prefix_str>> ELSE <<>>)
                \o (IF self.command # <<>> THEN <<self.command>> ELSE <<>>)
                \o (IF self.parameters.items # <<>>
                    THEN <<ParamList_str(self.parameters)>> ELSE <<>>)
    IN  Join(<<PARAM_SEP>>, kept)

\* Message.__eq__ between two messages: as_tuple() == as_tuple()
Message_eq(a, b) ==
    /\ (a.tags = None) = (b.tags = None)
    /\ a.tags # None /\ b.tags # None => TagList_eq(a.tags[1], b.tags[1])
    /\ a.prefix = b.prefix
    /\ a.command = b.command
    /\ ParamList_eq(a.parameters, b.parameters)

-----------------------------------------------------------------------------
(* The inputs of the model. *)

\* Characters of the texts handed to the tag functions: the five characters
\* the table escapes, two escape letters, the value separator, a plain letter.
TagChars == {"\\", ";", " ", "\r", "\n", "s", ":", "=", "a"}

\* Characters of parameter texts and of constructed parameters.
ParamChars == {" ", ":", "a"}

\* Characters of the lines handed to Message.parse.
LineChars == {"@", ":", " ", "c", "\n"}

\* The lines the specification gives as examples.
ExampleLine ==
    <<"@", "t", "i", "m", "e", "=", "2", "0", "2", "1", "-", "0", "1", "-",
      "0", "1", "T", "0", "0", ":", "0", "0", ":", "0", "0", ".", "0", "0",
      "0", "Z", " ", ":", "n", "i", "c", "k", "!", "u", "s", "e", "r", "@",
      "h", "o", "s", "t", " ", "P", "R", "I", "V", "M", "S", "G", " ", "#",
      "c", "h", "a", "n", " ", ":", "h", "e", "l", "l", "o", " ", "w", "o",
      "r", "l", "d">>
LowerCommand == <<"c", "o", "m", "m", "a", "n", "d">>
UpperCommand == <<"C", "O", "M", "M", "A", "N", "D">>
ExampleLines == {ExampleLine, LowerCommand, UpperCommand}

\* Characters of the fields of constructed messages.
NameChars == {"t", "="}
ValueChars == {"v", " ", ";"}
NickChars == {"n", "\n", "!"}
UserChars == {"u", "@"}
HostChars == {"h", "\n"}
CommandChars == {"C", "c", ":"}
MsgParamChars == {"p", " ", ":"}

NoTag == MessageTag(<<>>, <<>>, FALSE)
NoParams == ParamList(<<>>, FALSE)
NoMessage == Message(None, None, <<>>, NoParams)

\* Constructed parameter lists: any items, either flag.
ParamLists(most, longest) ==
    {ParamList(items, has_trail) :
        items \in UNION {[1..n -> Str(ParamChars, longest)] : n \in 0..most},
        has_trail \in BOOLEAN}

\* Lists of tags with distinct names, of total size at most n.
RECURSIVE TagLists(_)
TagLists(n) ==
    {<<>>} \cup
    UNION {UNION {UNION {
        {<<MessageTag(name, value, has_value)>> \o r :
            r \in {r \in TagLists(n - 1 - Len(name) - Len(value)) :
                      \A i \in 1..Len(r) : r[i].name # name}}
        : has_value \in BOOLEAN}
        : value \in Str(ValueChars, n - 1 - Len(name))}
        : name \in Str(NameChars, n - 1)}

\* Prefixes of total size at most n.
Prefixes(n) ==
    UNION {UNION {
        {Prefix(nick, user, host) : host \in Str(HostChars, n - Len(nick) - Len(user))}
        : user \in Str(UserChars, n - Len(nick))}
        : nick \in Str(NickChars, n)}

\* Lists of parameters of total size at most n.
RECURSIVE ItemLists(_)
ItemLists(n) ==
    {<<>>} \cup
    UNION {{<<item>> \o r : r \in ItemLists(n - 1 - Len(item))}
           : item \in Str(MsgParamChars, n - 1)}

TagsSize(t) ==
    IF t = None THEN 0
    ELSE LET RECURSIVE sum(_)
             sum(l) == IF l = <<>> THEN 0
                       ELSE 1 + Len(l[1].name) + Len(l[1].value) + sum(Rest(l))
         IN  sum(t[1])
PrefixSize(p) ==
    IF p = None THEN 0 ELSE Len(p[1].nick) + Len(p[1].user) + Len(p[1].host)

-----------------------------------------------------------------------------
(* The caller. *)

\* A text for MessageTag.escape / unescape / parse.
InitTag ==
    /\ pc = "tag_text"
    /\ text \in Str(TagChars, MaxTagLen)
    /\ kind = "str" /\ tag = NoTag /\ plist = NoParams /\ msg = NoMessage
    /\ out = <<>> /\ back = <<>>

\* A text for ParamList.parse, or a constructed ParamList.
InitParams ==
    /\ \/ pc = "param_text" /\ text \in Str(ParamChars, MaxParamText) /\ plist = NoParams
       \/ pc = "param_obj" /\ text = <<>> /\ plist \in ParamLists(MaxParams, MaxParamLen)
    /\ kind = "str" /\ tag = NoTag /\ msg = NoMessage
    /\ out = <<>> /\ back = <<>>

\* A constructed Message of total size at most MaxMsgSize.
InitMsg ==
    /\ pc = "msg_obj"
    /\ \E t \in {None} \cup {Some(x) : x \in TagLists(MaxMsgSize)} :
       \E p \in {None} \cup {Some(x) : x \in Prefixes(MaxMsgSize - TagsSize(t))} :
       \E c \in Str(CommandChars, MaxMsgSize - TagsSize(t) - PrefixSize(p)) :
       \E items \in ItemLists(MaxMsgSize - TagsSize(t) - PrefixSize(p) - Len(c)) :
       \E has_trail \in BOOLEAN :
           msg = Message(t, p, c, ParamList(items, has_trail))
    /\ text = <<>> /\ kind = "str" /\ tag = NoTag /\ plist = NoParams
    /\ out = <<>> /\ back = <<>>

\* A line for Message.parse: a str, or bytes that may hold invalid UTF-8.
InitParse ==
    /\ pc = "line"
    /\ \/ kind = "str" /\ text \in Str(LineChars, MaxLineLen) \cup ExampleLines
       \/ kind \in ByteKinds /\ text \in Str(LineChars \cup {BadByte}, MaxBytesLen)
    /\ tag = NoTag /\ plist = NoParams /\ msg = NoMessage
    /\ out = <<>> /\ back = <<>>

\* MessageTag.escape(text)
Escape ==
    /\ pc = "tag_text"
    /\ out' = escape(text)
    /\ pc' = "escaped"
    /\ UNCHANGED <<text, kind, tag, plist, msg, back>>

\* MessageTag.unescape(out)
Unescape ==
    /\ pc = "escaped"
    /\ back' = unescape(out)
    /\ pc' = "unescaped"
    /\ UNCHANGED <<text, kind, tag, plist, msg, out>>

\* tag = MessageTag.parse(text)
TagParse ==
    /\ pc = "tag_text"
    /\ tag' = MessageTag_parse(text)
    /\ pc' = "tag_parsed"
    /\ UNCHANGED <<text, kind, plist, msg, out, back>>

\* out = str(tag)
TagStr ==
    /\ pc = "tag_parsed"
    /\ out' = MessageTag_str(tag)
    /\ pc' = "tag_str"
    /\ UNCHANGED <<text, kind, tag, plist, msg, back>>

\* plist = ParamList.parse(text)
ParamParse ==
    /\ pc = "param_text"
    /\ plist' = ParamList_parse(text)
    /\ pc' = "param_parsed"
    /\ UNCHANGED <<text, kind, tag, msg, out, back>>

\* out = str(plist)
ParamStr ==
    /\ pc = "param_obj"
    /\ out' = ParamList_str(plist)
    /\ pc' = "param_str"
    /\ UNCHANGED <<text, kind, tag, plist, msg, back>>

\* back = ParamList.parse(out)
ParamReparse ==
    /\ pc = "param_str"
    /\ back' = ParamList_parse(out)
    /\ pc' = "param_reparsed"
    /\ UNCHANGED <<text, kind, tag, plist, msg, out>>

\* out = str(msg), of a constructed Message or of one that was parsed
MsgStr ==
    /\ pc \in {"msg_obj", "parsed"}
    /\ out' = Message_str(msg)
    /\ pc' = "msg_str"
    /\ UNCHANGED <<text, kind, tag, plist, msg, back>>

\* back = Message.parse(out)
MsgReparse ==
    /\ pc = "msg_str"
    /\ back' = Message_parse("str", out)
    /\ pc' = "msg_reparsed"
    /\ UNCHANGED <<text, kind, tag, plist, msg, out>>

\* msg = Message.parse(text)
MsgParse ==
    /\ pc = "line"
    /\ msg' = Message_parse(kind, text)
    /\ pc' = IF msg'.raised THEN "parse_raised" ELSE "parsed"
    /\ UNCHANGED <<text, kind, tag, plist, out, back>>

NextTag == Escape \/ Unescape \/ TagParse \/ TagStr
NextParams == ParamParse \/ ParamStr \/ ParamReparse
NextMsg == MsgStr \/ MsgReparse
NextParse == MsgParse

SpecTag == InitTag /\ [][NextTag]_vars
SpecParams == InitParams /\ [][NextParams]_vars
SpecMsg == InitMsg /\ [][NextMsg]_vars
SpecParse == InitParse /\ [][NextParse]_vars

\* Message.parse(str(Message.parse(text)))
NextFixed == NextParse \/ NextMsg
SpecFixed == InitParse /\ [][NextFixed]_vars

\* ParamList.parse of a text and Message.parse of a line
InitShape == InitParams \/ InitParse
NextShape == NextParams \/ NextParse
SpecShape == InitShape /\ [][NextShape]_vars

-----------------------------------------------------------------------------
(* Message comparison.  The caller holds a Message in msg and a second     *)
(* operand: kind is its Python type, text its characters when it is a str  *)
(* or bytes, back the Message when it is one.                              *)

\* size of the largest Message that is an operand of a comparison, and of
\* the two operands together when both are Messages
MaxEqSize == 2
\* largest size of a Message and length of the line it is compared with,
\* together
MaxEqLine == 4

\* What a comparison gives: a bool, NotImplemented, or a raised ParseError.
NotImplemented == "NotImplemented"
ParseError == "ParseError"
Bool(b) == IF b THEN "True" ELSE "False"

\* Types whose own __eq__ / __ne__ give NotImplemented for a Message and which
\* Message.__eq__ does not name.
OtherKinds == {"int", "NoneType", "tuple", "bytearray", "memoryview"}

\* "self == Message.parse(other)" and "self != Message.parse(other)", given
\* the outcome of the parse: its ParseError, or the comparison of self with
\* the Message it returned.
EqualsParsed(self, parsed) ==
    IF parsed.raised THEN ParseError ELSE Bool(Message_eq(self, parsed))
DiffersFromParsed(self, parsed) ==
    IF parsed.raised THEN ParseError ELSE Bool(~Message_eq(self, parsed))

\* Message.__eq__ that parses a str only (mutant)
Mut_Message___eq__(self, k, other) ==
    IF k = "str" THEN EqualsParsed(self, Message_parse(k, other))
    ELSE IF k = "Message" THEN Bool(Message_eq(self, other))
    ELSE NotImplemented

\* Message.__eq__(self, other)
Message___eq__(self, k, other) ==
    IF k \in {"str", "bytes"} THEN EqualsParsed(self, Message_parse(k, other))
    ELSE IF k = "Message" THEN Bool(Message_eq(self, other))
    ELSE NotImplemented

\* Message.__ne__(self, other)
Message___ne__(self, k, other) ==
    IF k \in {"str", "bytes"} THEN DiffersFromParsed(self, Message_parse(k, other))
    ELSE IF k = "Message" THEN Bool(~Message_eq(self, other))
    ELSE NotImplemented

\* The value of "a == b" / "a != b" when the method of the left operand gave
\* first and the reflected method of the right operand gave second: the
\* first that is not NotImplemented, else the comparison of two distinct
\* objects by identity.
RichCompare(first, second, by_identity) ==
    IF first # NotImplemented THEN first
    ELSE IF second # NotImplemented THEN second
    ELSE by_identity

\* m == o, m != o, o == m, o != m for an operand o of another type, given
\* what m.__eq__(o) and m.__ne__(o) give.  The methods of the other type give
\* NotImplemented.
Comparisons(eq, ne) ==
    [eq  |-> RichCompare(eq, NotImplemented, "False"),
     ne  |-> RichCompare(ne, NotImplemented, "True"),
     req |-> RichCompare(NotImplemented, eq, "False"),
     rne |-> RichCompare(NotImplemented, ne, "True")]

\* The four comparisons of a Message m with an operand.
Compared(m, k, other) ==
    Comparisons(Message___eq__(m, k, other), Message___ne__(m, k, other))

ItemsSize(items) ==
    LET RECURSIVE sum(_)
        sum(l) == IF l = <<>> THEN 0 ELSE 1 + Len(l[1]) + sum(Rest(l))
    IN  sum(items)

MessageSize(m) ==
    TagsSize(m.tags) + PrefixSize(m.prefix) + Len(m.command) + ItemsSize(m.parameters.items)

\* Constructed messages of total size at most n.
Messages(n) ==
    UNION {UNION {UNION {UNION {
        {Message(t, p, c, ParamList(items, has_trail)) : has_trail \in BOOLEAN}
        : items \in ItemLists(n - TagsSize(t) - PrefixSize(p) - Len(c))}
        : c \in Str(CommandChars, n - TagsSize(t) - PrefixSize(p))}
        : p \in {None} \cup {Some(x) : x \in Prefixes(n - TagsSize(t))}}
        : t \in {None} \cup {Some(x) : x \in TagLists(n)}}

\* A Message and a second operand: another Message, a line as str or bytes,
\* or a value of another type.
InitEq ==
    /\ pc = "eq_args"
    /\ \E t \in {None} \cup {Some(x) : x \in TagLists(MaxEqSize)} :
       \E p \in {None} \cup {Some(x) : x \in Prefixes(MaxEqSize - TagsSize(t))} :
       \E c \in Str(CommandChars, MaxEqSize - TagsSize(t) - PrefixSize(p)) :
       \E items \in ItemLists(MaxEqSize - TagsSize(t) - PrefixSize(p) - Len(c)) :
       \E has_trail \in BOOLEAN :
          LET size == TagsSize(t) + PrefixSize(p) + Len(c) + ItemsSize(items)
          IN  /\ msg = Message(t, p, c, ParamList(items, has_trail))
              /\ \/ kind = "Message" /\ text = <<>> /\ back \in Messages(MaxEqSize - size)
                 \/ kind = "str" /\ back = <<>> /\ text \in Str(LineChars, MaxEqLine - size)
                 \/ kind = "bytes" /\ back = <<>>
                    /\ text \in Str(LineChars \cup {BadByte}, MaxEqLine - size)
                 \/ kind \in OtherKinds /\ back = <<>> /\ text = <<>>
    /\ tag = NoTag /\ plist = NoParams /\ out = <<>>

\* out = (msg == other, msg != other, other == msg, other != msg)
Compare ==
    /\ pc = "eq_args"
    /\ out' = Compared(msg, kind, IF kind = "Message" THEN back ELSE text)
    /\ pc' = "compared"
    /\ UNCHANGED <<text, kind, tag, plist, msg, back>>

NextEq == Compare
SpecEq == InitEq /\ [][NextEq]_vars

-----------------------------------------------------------------------------
(* Prefix.parse and bool(Prefix).  The caller holds a text for Prefix.parse *)
(* or a constructed Prefix in back.                                        *)

\* longest text handed to Prefix.parse
MaxPrefixText == 5
\* size of the largest constructed Prefix: the characters of its three fields
MaxPrefixSize == 4

\* Characters of the texts handed to Prefix.parse.
PrefixChars == {"n", "!", "@", ":", "\n"}

\* Prefix.__bool__ that looks at the nick alone (mutant)
Mut_Prefix___bool__(self) == self.nick # <<>>

\* Prefix.__bool__: any(iter(self._data))
Prefix___bool__(self) == \E field \in {self.nick, self.user, self.host} : field # <<>>

\* A text for Prefix.parse, or a constructed Prefix.
InitPrefix ==
    /\ \/ pc = "prefix_text" /\ text \in Str(PrefixChars, MaxPrefixText)
          /\ back = Prefix(<<>>, <<>>, <<>>)
       \/ pc = "prefix_obj" /\ text = <<>> /\ back \in Prefixes(MaxPrefixSize)
    /\ kind = "str" /\ tag = NoTag /\ plist = NoParams /\ msg = NoMessage
    /\ out = <<>>

\* back = Prefix.parse(text)
PrefixParse ==
    /\ pc = "prefix_text"
    /\ LET parsed == Prefix_parse(text)
       IN  /\ back' = parsed.value
           /\ pc' = IF parsed.raised THEN "prefix_raised" ELSE "prefix_parsed"
    /\ UNCHANGED <<text, kind, tag, plist, msg, out>>

\* out = bool(back)
PrefixBool ==
    /\ pc = "prefix_obj"
    /\ out' = Prefix___bool__(back)
    /\ pc' = "prefix_bool"
    /\ UNCHANGED <<text, kind, tag, plist, msg, back>>

NextPrefix == PrefixParse \/ PrefixBool
SpecPrefix == InitPrefix /\ [][NextPrefix]_vars

-----------------------------------------------------------------------------
(* Constructed MessageTags.  The caller holds two tags, in tag and back.   *)

\* size of the largest constructed MessageTag: the characters of its name and
\* of its value
MaxTagSize == 2

\* Characters of the names of constructed tags.
TagNameChars == {"a", "="}

\* Constructed tags of size at most n: any name, any value, either flag.
MessageTags(n) ==
    UNION {{MessageTag(name, value, has_value) :
               value \in Str(ValueChars, n - Len(name)), has_value \in BOOLEAN}
           : name \in Str(TagNameChars, n)}

\* Two constructed tags.
InitTagObj ==
    /\ pc = "tag_obj"
    /\ tag \in MessageTags(MaxTagSize)
    /\ back \in MessageTags(MaxTagSize)
    /\ text = <<>> /\ kind = "str" /\ plist = NoParams /\ msg = NoMessage
    /\ out = <<>>

\* out = (tag == back)
TagCompare ==
    /\ pc = "tag_obj"
    /\ out' = MessageTag_eq(tag, back)
    /\ pc' = "tag_compared"
    /\ UNCHANGED <<text, kind, tag, plist, msg, back>>

\* out = str(tag)
TagObjStr ==
    /\ pc = "tag_obj"
    /\ out' = MessageTag_str(tag)
    /\ pc' = "tag_obj_str"
    /\ UNCHANGED <<text, kind, tag, plist, msg, back>>

NextTagObj == TagCompare \/ TagObjStr
SpecTagObj == InitTagObj /\ [][NextTagObj]_vars

-----------------------------------------------------------------------------
(* MessageTag.unescape of any text. *)

\* back = MessageTag.unescape(text)
UnescapeText ==
    /\ pc = "tag_text"
    /\ back' = unescape(text)
    /\ pc' = "text_unescaped"
    /\ UNCHANGED <<text, kind, tag, plist, msg, out>>

NextUnescape == UnescapeText
SpecUnescape == InitTag /\ [][NextUnescape]_vars

-----------------------------------------------------------------------------
(* TagList.parse.  The caller holds a text, the TagList parsed from it in  *)
(* back and its serialization in out.                                      *)

\* longest text handed to TagList.parse
MaxTagListText == 6

\* Characters of the texts handed to TagList.parse.
TagListChars == {"a", "b", "=", ";", "1"}

\* A tag list whose first name comes back with another value.
RepeatedName == <<"a", "=", "1", ";", "b", ";", "a", "=", "2">>

\* A text for TagList.parse.
InitTagList ==
    /\ pc = "tags_text"
    /\ text \in Str(TagListChars, MaxTagListText) \cup {RepeatedName}
    /\ kind = "str" /\ tag = NoTag /\ plist = NoParams /\ msg = NoMessage
    /\ out = <<>> /\ back = <<>>

\* back = TagList.parse(text)
TagListParse ==
    /\ pc = "tags_text"
    /\ back' = TagList_parse(text)
    /\ pc' = "tags_parsed"
    /\ UNCHANGED <<text, kind, tag, plist, msg, out>>

\* out = str(back), of a parsed TagList or of a constructed one
TagListStr ==
    /\ pc \in {"tags_parsed", "tags_obj"}
    /\ out' = TagList_str(back)
    /\ pc' = "tags_str"
    /\ UNCHANGED <<text, kind, tag, plist, msg, back>>

NextTagList == TagListParse \/ TagListStr
SpecTagList == InitTagList /\ [][NextTagList]_vars

-----------------------------------------------------------------------------
(* Cap and CapList.  A Cap is [name, value], its value None or Some(str);  *)
(* a CapList is the list of its Caps.  The caller holds a text and the Cap *)
(* or CapList parsed from it, or a constructed Cap, in back.               *)

\* longest text handed to Cap.parse
MaxCapText == 4
\* size of the largest constructed Cap: the characters of its name and value
MaxCapSize == 3
\* longest text handed to CapList.parse
MaxCapListText == 5

CAP_SEP == " "
CAP_VALUE_SEP == "="

\* Cap.__init__
Cap(name, value) == [name |-> name, value |-> value]

\* Cap.parse
Cap_parse(t) ==
    LET p == Partition(t, CAP_VALUE_SEP)
    IN  Cap(p.head, IF p.tail # <<>> THEN Some(p.tail) ELSE None)

\* Cap.__str__ that tests the value against None (mutant)
Mut_Cap_str(self) ==
    IF self.value # None
    THEN Join(<<CAP_VALUE_SEP>>, <<self.name, self.value[1]>>)
    ELSE self.name

\* Cap.__str__: "if self.value" is false for None and for ""
Cap_str(self) ==
    IF self.value # None /\ self.value[1] # <<>>
    THEN Join(<<CAP_VALUE_SEP>>, <<self.name, self.value[1]>>)
    ELSE self.name

\* The characters str.strip() removes, of those the model's texts hold.
Whitespace == {" ", "\t", "\n", "\r"}

\* str.strip()
RECURSIVE Strip(_)
Strip(s) ==
    IF s = <<>> THEN s
    ELSE IF s[1] \in Whitespace THEN Strip(Rest(s))
    ELSE IF Last(s) \in Whitespace THEN Strip(Front(s))
    ELSE s

\* CapList.parse
CapList_parse(t) ==
    LET t1 == IF StartsWith(t, ":") THEN Rest(t) ELSE t
        stripped == Strip(t1)
        parts == Split(stripped, CAP_SEP)
    IN  IF t1 = <<>> THEN <<>> ELSE [i \in 1..Len(parts) |-> Cap_parse(parts[i])]

\* Characters of the texts handed to Cap.parse and of constructed Caps.
CapChars == {"a", "=", " "}

\* Characters of the texts handed to CapList.parse.
CapListChars == {":", " ", "\n", "a", "="}

\* Constructed Caps of size at most n: any name, a value or None.
Caps(n) ==
    UNION {{Cap(name, value) :
               value \in {None} \cup {Some(v) : v \in Str(CapChars, n - Len(name))}}
           : name \in Str(CapChars, n)}

\* A text for Cap.parse, or a constructed Cap.
InitCap ==
    /\ \/ pc = "cap_text" /\ text \in Str(CapChars, MaxCapText) /\ back = Cap(<<>>, None)
       \/ pc = "cap_obj" /\ text = <<>> /\ back \in Caps(MaxCapSize)
    /\ kind = "str" /\ tag = NoTag /\ plist = NoParams /\ msg = NoMessage
    /\ out = <<>>

\* back = Cap.parse(text)
CapParse ==
    /\ pc = "cap_text"
    /\ back' = Cap_parse(text)
    /\ pc' = "cap_parsed"
    /\ UNCHANGED <<text, kind, tag, plist, msg, out>>

\* out = str(back)
CapStr ==
    /\ pc \in {"cap_parsed", "cap_obj"}
    /\ out' = Cap_str(back)
    /\ pc' = "cap_str"
    /\ UNCHANGED <<text, kind, tag, plist, msg, back>>

NextCap == CapParse \/ CapStr
SpecCap == InitCap /\ [][NextCap]_vars

\* A text for CapList.parse.
InitCapList ==
    /\ pc = "caps_text"
    /\ text \in Str(CapListChars, MaxCapListText)
    /\ kind = "str" /\ tag = NoTag /\ plist = NoParams /\ msg = NoMessage
    /\ out = <<>> /\ back = <<>>

\* back = CapList.parse(text)
CapListParse ==
    /\ pc = "caps_text"
    /\ back' = CapList_parse(text)
    /\ pc' = "caps_parsed"
    /\ UNCHANGED <<text, kind, tag, plist, msg, out>>

NextCapList == CapListParse
SpecCapList == InitCapList /\ [][NextCapList]_vars

-----------------------------------------------------------------------------
(* Case-insensitive strings, src/irclib/util/string.py.  A String is       *)
(* [value, casemap]; a plain str is [value, casemap |-> None].  The caller *)
(* holds the left operand of a comparison in msg, the right one in back,   *)
(* and the results of the six operators in out.                            *)

\* most characters in the two operands of a String comparison together
MaxStringLen == 3

\* Characters of the operands, with their code points: letters in both cases,
\* the four pairs the RFC1459 casemaps add, the characters next to the
\* ranges of the casemaps, and the space.
StringChars ==
    {" ", "@", "A", "B", "Z", "[", "\\", "]", "^", "_", "a", "b", "z", "{", "|", "}", "~"}
InputChars == {"A", "B", "a", "[", "{", "^", "~"}
ord ==
    [c \in StringChars |->
        CASE c = " " -> 32 [] c = "@" -> 64 [] c = "A" -> 65 [] c = "B" -> 66 [] c = "Z" -> 90
          [] c = "[" -> 91 [] c = "\\" -> 92 [] c = "]" -> 93 [] c = "^" -> 94
          [] c = "_" -> 95
          [] c = "a" -> 97 [] c = "b" -> 98 [] c = "z" -> 122
          [] c = "{" -> 123 [] c = "|" -> 124 [] c = "}" -> 125 [] c = "~" -> 126]
chr(n) == CHOOSE c \in StringChars : ord[c] = n

\* Casemap whose runs stop one character early (mutant)
Mut_Casemap(first, stop) ==
    [lower |-> [i \in 1..(stop - first - 1) |-> first + i - 1],
     upper |-> [i \in 1..(stop - first - 1) |-> 97 + i - 1]]

\* Casemap(lower, upper) with lower = chr(first) .. chr(stop - 1) and upper
\* the run of the same length from chr(97)
Casemap(first, stop) ==
    [lower |-> [i \in 1..(stop - first) |-> first + i - 1],
     upper |-> [i \in 1..(stop - first) |-> 97 + i - 1]]

RFC1459 == Casemap(65, 95)
STRICT_RFC1459 == Casemap(65, 94)
ASCII == Casemap(65, 91)
Casemaps == {ASCII, RFC1459, STRICT_RFC1459}

\* Casemap.lower_table: str.maketrans(self.lower, self.upper)
lower_table(casemap) ==
    [n \in {casemap.lower[i] : i \in 1..Len(casemap.lower)} |->
        casemap.upper[CHOOSE i \in 1..Len(casemap.lower) : casemap.lower[i] = n]]

\* String.__new__
String(value, casemap) ==
    [value |-> value, casemap |-> IF casemap = None THEN ASCII ELSE casemap]

\* A plain str
PlainStr(value) == [value |-> value, casemap |-> None]

\* String._wrap that leaves the casemap to its default (mutant)
Mut__wrap(self, value) == String(value, None)

\* String._wrap
_wrap(self, value) == String(value, self.casemap)

\* String.translate
translate(self, table) ==
    _wrap(self, [i \in 1..Len(self.value) |->
                    IF ord[self.value[i]] \in DOMAIN table
                    THEN chr(table[ord[self.value[i]]])
                    ELSE self.value[i]])

\* The lower_table of each casemap, worked out once.
lower_tables == [casemap \in Casemaps |-> lower_table(casemap)]

\* String.casefold, which is String.lower
casefold(self) == translate(self, lower_tables[self.casemap])

\* x < y for two plain strs: by code point, a proper prefix first
StrLess(x, y) ==
    \E k \in 1..(Len(y)) :
        /\ \A i \in 1..(k - 1) : i <= Len(x) /\ x[i] = y[i]
        /\ (k > Len(x) \/ (k <= Len(x) /\ ord[x[k]] < ord[y[k]]))

Operators == {"<", "<=", "==", "!=", ">", ">="}

\* operator.lt .. operator.ge on two plain strs
StrCompare(op, x, y) ==
    CASE op = "<" -> StrLess(x, y)
      [] op = "<=" -> StrLess(x, y) \/ x = y
      [] op = "==" -> x = y
      [] op = "!=" -> x # y
      [] op = ">" -> StrLess(y, x)
      [] op = ">=" -> StrLess(y, x) \/ x = y

\* String.__internal_cmp when other is a String
CompareStrings(self, other, op) ==
    StrCompare(op, casefold(self).value, casefold(other).value)

\* String.__internal_cmp, as String.__lt__ .. String.__ge__ call it: a plain
\* str is wrapped and compared by the same method
String_compare(self, other, op) ==
    IF other.casemap # None THEN CompareStrings(self, other, op)
    ELSE CompareStrings(self, _wrap(self, other.value), op)

\* The operator Python calls on the right operand when the left one is a
\* plain str and the right one a String
Reflected(op) ==
    CASE op = "<" -> ">" [] op = "<=" -> ">=" [] op = ">" -> "<" [] op = ">=" -> "<="
      [] OTHER -> op

\* left op right, one of the two a String
Evaluate(left, right, op) ==
    IF left.casemap # None THEN String_compare(left, right, op)
    ELSE String_compare(right, left, Reflected(op))

\* Two operands of which at least one is a String.
InitString ==
    /\ pc = "string_args"
    /\ \E a \in Str(InputChars, MaxStringLen) :
       \E b \in Str(InputChars, MaxStringLen - Len(a)) :
       \E ca \in Casemaps \cup {None}, cb \in Casemaps \cup {None} :
          /\ ~(ca = None /\ cb = None)
          /\ msg = IF ca = None THEN PlainStr(a) ELSE String(a, ca)
          /\ back = IF cb = None THEN PlainStr(b) ELSE String(b, cb)
    /\ text = <<>> /\ kind = "str" /\ tag = NoTag /\ plist = NoParams
    /\ out = <<>>

\* out = the results of msg < back, msg <= back, ... , msg >= back
StringCompare ==
    /\ pc = "string_args"
    /\ out' = [op \in Operators |-> Evaluate(msg, back, op)]
    /\ pc' = "string_compared"
    /\ UNCHANGED <<text, kind, tag, plist, msg, back>>

NextString == StringCompare
SpecString == InitString /\ [][NextString]_vars

\* Two operands of one character each under one casemap: two Strings, or a
\* String and a plain str on either side.
InitCasemap ==
    /\ pc = "string_args"
    /\ \E c \in StringChars, d \in StringChars, casemap \in Casemaps :
       \E sides \in {"String String", "String str", "str String"} :
          /\ msg = IF sides = "str String" THEN PlainStr(<<c>>) ELSE String(<<c>>, casemap)
          /\ back = IF sides = "String str" THEN PlainStr(<<d>>) ELSE String(<<d>>, casemap)
    /\ text = <<>> /\ kind = "str" /\ tag = NoTag /\ plist = NoParams
    /\ out = <<>>

SpecCasemap == InitCasemap /\ [][NextString]_vars

-----------------------------------------------------------------------------
(* hash(String).  The caller holds two Strings in msg and back, and in out  *)
(* whether they are equal and the hash of each.                             *)

\* hash() of a plain str: a function of its characters alone, here their
\* code points, the finest such function.
hash(s) == [i \in 1..Len(s) |-> ord[s[i]]]

\* String.__hash__ that hashes the text as written (mutant)
Mut_String___hash__(self) == hash(self.value)

\* String.__hash__
String___hash__(self) == hash(casefold(self).value)

\* Two Strings, each under a casemap of its own.
InitHash ==
    /\ pc = "hash_args"
    /\ \E a \in Str(InputChars, MaxStringLen) :
       \E b \in Str(InputChars, MaxStringLen - Len(a)) :
       \E ca \in Casemaps, cb \in Casemaps :
          msg = String(a, ca) /\ back = String(b, cb)
    /\ text = <<>> /\ kind = "str" /\ tag = NoTag /\ plist = NoParams
    /\ out = <<>>

\* out = (msg == back, hash(msg), hash(back))
Hash ==
    /\ pc = "hash_args"
    /\ out' = [eq |-> Evaluate(msg, back, "=="),
               left |-> String___hash__(msg),
               right |-> String___hash__(back)]
    /\ pc' = "hashed"
    /\ UNCHANGED <<text, kind, tag, plist, msg, back>>

NextHash == Hash
SpecHash == InitHash /\ [][NextHash]_vars

-----------------------------------------------------------------------------
(* Methods of String that search it or derive a String from it.  The caller *)
(* holds the String in msg, its characters as constructed in text, the      *)
(* argument of the method in back, the method called in kind and what it    *)
(* returned in out: a tuple of the Strings returned, or a record of the     *)
(* results of the searches.                                                 *)

\* most characters in a String and the argument of a search together
MaxSearchLen == 4
\* most characters in a String and the argument of a derivation together
MaxDeriveLen == 3

\* Casemap.upper_table: str.maketrans(self.upper, self.lower)
upper_table(casemap) ==
    [n \in {casemap.upper[i] : i \in 1..Len(casemap.upper)} |->
        casemap.lower[CHOOSE i \in 1..Len(casemap.upper) : casemap.upper[i] = n]]

\* String.swapcase: lower_table updated with upper_table
swapcase(self) ==
    LET lo == lower_table(self.casemap)
        up == upper_table(self.casemap)
    IN  translate(self, [n \in DOMAIN lo \cup DOMAIN up |->
                            IF n \in DOMAIN up THEN up[n] ELSE lo[n]])

\* String.lower that swaps the case (mutant)
Mut_lower(self) == swapcase(self)

\* String.lower
lower(self) == translate(self, lower_table(self.casemap))

\* String.upper
upper(self) == translate(self, upper_table(self.casemap))

\* An index and a slice [start:stop] with start and stop not negative.
Index(i) == <<i>>
Slice(start, stop) == <<start, stop>>
Min(a, b) == IF a < b THEN a ELSE b

\* String.__getitem__ that returns a String under the default casemap
\* (mutant)
Mut_String___getitem__(self, item) ==
    IF Len(item) = 1
    THEN String(<<self.value[IF item[1] < 0 THEN item[1] + Len(self.value) + 1
                             ELSE item[1] + 1]>>, None)
    ELSE String(SubSeq(self.value, Min(item[1], Len(self.value)) + 1,
                       Min(item[2], Len(self.value))), None)

\* String.__getitem__ for an index in range or a slice
String___getitem__(self, item) ==
    IF Len(item) = 1
    THEN _wrap(self, <<self.value[IF item[1] < 0 THEN item[1] + Len(self.value) + 1
                                  ELSE item[1] + 1]>>)
    ELSE _wrap(self, SubSeq(self.value, Min(item[1], Len(self.value)) + 1,
                            Min(item[2], Len(self.value))))

\* self[start:]
SliceFrom(self, start) == String___getitem__(self, Slice(start, Len(self.value)))

\* String.__add__
String___add__(self, other) == _wrap(self, self.value \o other.value)

\* String.capitalize
capitalize(self) ==
    String___add__(upper(String___getitem__(self, Slice(0, 1))),
                   lower(SliceFrom(self, 1)))

\* str.find(sub) and str.rfind(sub) on plain strs: the first position from
\* the left, or from the right, where sub is found, or -1
RECURSIVE StrFindFrom(_, _, _, _)
StrFindFrom(s, sub, i, step) ==
    IF i < 0 \/ i + Len(sub) > Len(s) THEN -1
    ELSE IF SubSeq(s, i + 1, i + Len(sub)) = sub THEN i
    ELSE StrFindFrom(s, sub, i + step, step)
StrFind(s, sub) == StrFindFrom(s, sub, 0, 1)
StrRfind(s, sub) == StrFindFrom(s, sub, Len(s) - Len(sub), -1)

\* self._wrap(sub).casefold()
Folded(self, sub) == casefold(_wrap(self, sub.value)).value

\* String.__contains__ for an item that is a str
String___contains__(self, item) == StrFind(casefold(self).value, Folded(self, item)) >= 0

\* String.startswith and String.endswith for one prefix or suffix
startswith(self, prefix) ==
    LET s == casefold(self).value
        p == Folded(self, prefix)
    IN  Len(p) <= Len(s) /\ SubSeq(s, 1, Len(p)) = p
endswith(self, suffix) ==
    LET s == casefold(self).value
        p == Folded(self, suffix)
    IN  Len(p) <= Len(s) /\ SubSeq(s, Len(s) - Len(p) + 1, Len(s)) = p

\* String.find that searches the text as written (mutant)
Mut_find(self, sub) == StrFind(self.value, Folded(self, sub))

\* String.find and String.rfind
find(self, sub) == StrFind(casefold(self).value, Folded(self, sub))
rfind(self, sub) == StrRfind(casefold(self).value, Folded(self, sub))

\* str.index / str.rindex, given what find / rfind gives: ValueError
\* ("substring not found") when that is -1
OrValueError(pos) == [raised |-> pos < 0, value |-> pos]

\* String.index and String.rindex
index(self, sub) == OrValueError(StrFind(casefold(self).value, Folded(self, sub)))
rindex(self, sub) == OrValueError(StrRfind(casefold(self).value, Folded(self, sub)))

\* String.partition and String.rpartition
partition(self, sep) ==
    LET pos == find(self, sep)
    IN  IF pos < 0 THEN <<self, _wrap(self, <<>>), _wrap(self, <<>>)>>
        ELSE <<String___getitem__(self, Slice(0, pos)),
               String___getitem__(self, Slice(pos, pos + Len(sep.value))),
               SliceFrom(self, pos + Len(sep.value))>>
rpartition(self, sep) ==
    LET pos == rfind(self, sep)
    IN  IF pos < 0 THEN <<_wrap(self, <<>>), _wrap(self, <<>>), self>>
        ELSE <<String___getitem__(self, Slice(0, pos)),
               String___getitem__(self, Slice(pos, pos + Len(sep.value))),
               SliceFrom(self, pos + Len(sep.value))>>

\* string.whitespace, of the characters of the model
whitespace == PlainStr(<<" ">>)

\* String.lstrip: the loop from start, then self[start:]
RECURSIVE LstripFrom(_, _, _)
LstripFrom(self, chars, start) ==
    IF start < Len(self.value)
       /\ String___contains__(chars, String___getitem__(self, Index(start)))
    THEN LstripFrom(self, chars, start + 1)
    ELSE SliceFrom(self, start)
lstrip(self, chars) ==
    LstripFrom(self, _wrap(self, (IF chars = None THEN whitespace ELSE chars[1]).value), 0)

\* String.rstrip: the loop from end, then self[:end]
RECURSIVE RstripFrom(_, _, _)
RstripFrom(self, chars, end) ==
    IF end > 0
       /\ String___contains__(chars, String___getitem__(self, Index(end - 1)))
    THEN RstripFrom(self, chars, end - 1)
    ELSE String___getitem__(self, Slice(0, end))
rstrip(self, chars) ==
    RstripFrom(self, _wrap(self, (IF chars = None THEN whitespace ELSE chars[1]).value),
               Len(self.value))

\* String.strip
strip(self, chars) == rstrip(lstrip(self, chars), chars)

\* Characters of the Strings that are searched and of what is searched for.
SearchChars == {"A", "a", "[", "{", "^"}

\* Characters of the Strings that Strings are derived from and of the
\* arguments of the derivations.
DeriveChars == {"A", "a", "[", "{", "^", " "}

\* A str argument: a plain str or a String under any casemap.
StrArgs(chars, n) ==
    {IF casemap = None THEN PlainStr(b) ELSE String(b, casemap) :
        b \in Str(chars, n), casemap \in Casemaps \cup {None}}

\* A String and a str to search it for.
InitSearch ==
    /\ pc = "search_args"
    /\ \E a \in Str(SearchChars, MaxSearchLen), casemap \in Casemaps :
          /\ msg = String(a, casemap) /\ text = a
          /\ back \in StrArgs(SearchChars, MaxSearchLen - Len(a))
    /\ kind = "str" /\ tag = NoTag /\ plist = NoParams /\ out = <<>>

\* out = back in msg, msg.startswith(back), ... , msg.rindex(back)
Search ==
    /\ pc = "search_args"
    /\ out' = [contains |-> String___contains__(msg, back),
               startswith |-> startswith(msg, back),
               endswith |-> endswith(msg, back),
               find |-> find(msg, back),
               rfind |-> rfind(msg, back),
               index |-> index(msg, back),
               rindex |-> rindex(msg, back)]
    /\ pc' = "searched"
    /\ UNCHANGED <<text, kind, tag, plist, msg, back>>

NextSearch == Search
SpecSearch == InitSearch /\ [][NextSearch]_vars

\* A String and the argument of a method that derives a String from it:
\* none, an index or a slice, or a str.
InitDerive ==
    /\ pc = "derive_args"
    /\ \E a \in Str(DeriveChars, MaxDeriveLen), casemap \in Casemaps :
          /\ msg = String(a, casemap) /\ text = a
          /\ \/ kind = "none" /\ back = <<>>
             \/ kind = "item"
                /\ back \in {Index(i) : i \in -(MaxDeriveLen + 1)..MaxDeriveLen}
                         \cup {Slice(i, j) : i, j \in 0..MaxDeriveLen}
             \/ kind = "str" /\ back \in StrArgs(DeriveChars, MaxDeriveLen - Len(a))
    /\ tag = NoTag /\ plist = NoParams /\ out = <<>>

\* out = msg.lower(), then out = out.lower() with the first result in back
Lower ==
    /\ kind = "none" /\ pc \in {"derive_args", "lower"}
    /\ out' = <<lower(IF pc = "derive_args" THEN msg ELSE out[1])>>
    /\ back' = IF pc = "derive_args" THEN back ELSE out
    /\ pc' = IF pc = "derive_args" THEN "lower" ELSE "lower_lower"
    /\ UNCHANGED <<text, kind, tag, plist, msg>>

\* out = msg.upper(), then out = out.upper() with the first result in back
Upper_ ==
    /\ kind = "none" /\ pc \in {"derive_args", "upper"}
    /\ out' = <<upper(IF pc = "derive_args" THEN msg ELSE out[1])>>
    /\ back' = IF pc = "derive_args" THEN back ELSE out
    /\ pc' = IF pc = "derive_args" THEN "upper" ELSE "upper_upper"
    /\ UNCHANGED <<text, kind, tag, plist, msg>>

\* out = msg.casefold(), msg.swapcase() or msg.capitalize()
Casefold ==
    /\ kind = "none" /\ pc = "derive_args"
    /\ out' = <<casefold(msg)>> /\ pc' = "casefold"
    /\ UNCHANGED <<text, kind, tag, plist, msg, back>>
Swapcase ==
    /\ kind = "none" /\ pc = "derive_args"
    /\ out' = <<swapcase(msg)>> /\ pc' = "swapcase"
    /\ UNCHANGED <<text, kind, tag, plist, msg, back>>
Capitalize ==
    /\ kind = "none" /\ pc = "derive_args"
    /\ out' = <<capitalize(msg)>> /\ pc' = "capitalize"
    /\ UNCHANGED <<text, kind, tag, plist, msg, back>>

\* out = msg[back]; an index out of range raises IndexError
GetItem ==
    /\ kind = "item" /\ pc = "derive_args"
    /\ IF Len(back) = 1 /\ (back[1] >= Len(msg.value) \/ back[1] < -Len(msg.value))
       THEN out' = <<>> /\ pc' = "IndexError"
       ELSE out' = <<String___getitem__(msg, back)>> /\ pc' = "getitem"
    /\ UNCHANGED <<text, kind, tag, plist, msg, back>>

\* out = msg + back
Add ==
    /\ kind = "str" /\ pc = "derive_args"
    /\ out' = <<String___add__(msg, back)>> /\ pc' = "add"
    /\ UNCHANGED <<text, kind, tag, plist, msg, back>>

\* out = msg.partition(back) and msg.rpartition(back)
PartitionStr ==
    /\ kind = "str" /\ pc = "derive_args"
    /\ out' = partition(msg, back) /\ pc' = "partition"
    /\ UNCHANGED <<text, kind, tag, plist, msg, back>>
RpartitionStr ==
    /\ kind = "str" /\ pc = "derive_args"
    /\ out' = rpartition(msg, back) /\ pc' = "rpartition"
    /\ UNCHANGED <<text, kind, tag, plist, msg, back>>

\* out = msg.strip() or msg.strip(back)
StripStr ==
    /\ kind \in {"none", "str"} /\ pc = "derive_args"
    /\ out' = <<strip(msg, IF kind = "none" THEN None ELSE Some(back))>>
    /\ pc' = "strip"
    /\ UNCHANGED <<text, kind, tag, plist, msg, back>>

NextDerive ==
    \/ Lower \/ Upper_ \/ Casefold \/ Swapcase \/ Capitalize
    \/ GetItem \/ Add \/ PartitionStr \/ RpartitionStr \/ StripStr
SpecDerive == InitDerive /\ [][NextDerive]_vars

-----------------------------------------------------------------------------
(* match_mask, src/irclib/util/compare.py.  The caller holds the candidate  *)
(* in text, the pattern in back and the result in out.                      *)

\* longest candidate handed to match_mask
MaxMaskLen == 4
\* longest pattern handed to match_mask
MaxPatternLen == 3

\* "$" of a regex compiled without flags: the end of the text, or the place
\* before a line feed that ends the text
AtDollar(rest) == rest = <<>> \/ rest = <<"\n">>

\* "." of a regex compiled without re.DOTALL: one character that is not a
\* line feed
Dot(c) == c # "\n"

\* regex.match(mask) for the regex "^" + re_pattern + "$" built from the
\* pattern with GLOB_MAP: "?" is ".", "*" is ".*", any other character is
\* re.escape(c),
\* which matches that character
RECURSIVE RegexMatch(_, _)
RegexMatch(rest, pattern) ==
    IF pattern = <<>> THEN AtDollar(rest)
    ELSE IF pattern[1] = "?"
    THEN rest # <<>> /\ Dot(rest[1]) /\ RegexMatch(Rest(rest), Rest(pattern))
    ELSE IF pattern[1] = "*"
    THEN \/ RegexMatch(rest, Rest(pattern))
         \/ rest # <<>> /\ Dot(rest[1]) /\ RegexMatch(Rest(rest), pattern)
    ELSE rest # <<>> /\ rest[1] = pattern[1] /\ RegexMatch(Rest(rest), Rest(pattern))

\* match_mask(mask, pattern)
match_mask(mask, pattern) == RegexMatch(mask, pattern)

\* Characters of candidates and of patterns: a letter, a character that is
\* special in a regex, the line feed, and the two wildcards.
MaskChars == {"a", ".", "\n", "*"}
PatternChars == {"a", ".", "\n", "*", "?"}

\* A candidate and a pattern.
InitMask ==
    /\ pc = "mask_args"
    /\ text \in Str(MaskChars, MaxMaskLen)
    /\ back \in Str(PatternChars, MaxPatternLen)
    /\ kind = "str" /\ tag = NoTag /\ plist = NoParams /\ msg = NoMessage
    /\ out = <<>>

\* out = match_mask(text, back)
MatchMask ==
    /\ pc = "mask_args"
    /\ out' = match_mask(text, back)
    /\ pc' = "mask_matched"
    /\ UNCHANGED <<text, kind, tag, plist, msg, back>>

NextMask == MatchMask
SpecMask == InitMask /\ [][NextMask]_vars

-----------------------------------------------------------------------------
(* The loops of the parsers, one iteration a step.  ParamList.parse: text   *)
(* is what is left to scan, plist the arguments found, back the text as     *)
(* given.  MessageTag.unescape: text is the value, out the locals of the    *)
(* loop.  String.lstrip / rstrip: msg is the String, back the wrapped set   *)
(* of characters, out the local start or end, then the String returned.    *)

\* longest text handed to a loop
MaxLoopText == 5

\* Characters of the values handed to MessageTag.unescape, one iteration a
\* step, and of the Strings that are stripped.
UnescapeLoopChars == {"\\", "a", ":"}
StripLoopChars == {" ", "a", "A"}

\* A text before the first iteration of the loop that scans it.
InitLoops ==
    /\ \/ /\ pc = "params_loop"
          /\ text \in Str(ParamChars, MaxLoopText) /\ back = text
          /\ plist = NoParams /\ out = <<>> /\ msg = NoMessage
       \/ /\ pc = "unescape_loop"
          /\ text \in Str(UnescapeLoopChars, MaxLoopText - 1) /\ back = <<>>
          /\ plist = NoParams /\ msg = NoMessage
          /\ out = [i |-> 1, new_value |-> <<>>, escaped |-> FALSE]
       \/ /\ pc \in {"lstrip_loop", "rstrip_loop"}
          /\ text \in Str(StripLoopChars, MaxLoopText - 2)
          /\ msg = String(text, ASCII)
          /\ \E chars \in {whitespace, PlainStr(<<"a">>), PlainStr(<<>>)} :
                back = _wrap(msg, chars.value)
          /\ plist = NoParams
          /\ out = IF pc = "lstrip_loop" THEN 0 ELSE Len(text)
    /\ kind = "str" /\ tag = NoTag

\* One iteration of the while loop of ParamList.parse that leaves the text
\* as it is when the argument is empty (mutant)
Mut_ParamsIteration ==
    /\ pc = "params_loop" /\ text # <<>>
    /\ IF text[1] = TRAIL_SENTINEL
       THEN /\ plist' = ParamList(Append(plist.items, Rest(text)), TRUE)
            /\ pc' = "params_done" /\ text' = text
       ELSE LET p == Partition(text, PARAM_SEP)
            IN  /\ plist' = IF p.head # <<>>
                            THEN ParamList(Append(plist.items, p.head), FALSE) ELSE plist
                /\ text' = IF p.head # <<>> THEN p.tail ELSE text
                /\ pc' = pc
    /\ UNCHANGED <<kind, tag, msg, out, back>>

\* One iteration of the while loop of ParamList.parse
ParamsIteration ==
    /\ pc = "params_loop" /\ text # <<>>
    /\ IF text[1] = TRAIL_SENTINEL
       THEN /\ plist' = ParamList(Append(plist.items, Rest(text)), TRUE)
            /\ pc' = "params_done" /\ text' = text
       ELSE LET p == Partition(text, PARAM_SEP)
            IN  /\ plist' = IF p.head # <<>>
                            THEN ParamList(Append(plist.items, p.head), FALSE) ELSE plist
                /\ text' = p.tail
                /\ pc' = pc
    /\ UNCHANGED <<kind, tag, msg, out, back>>

\* The while loop of ParamList.parse ends: nothing is left of the text
ParamsExit ==
    /\ pc = "params_loop" /\ text = <<>>
    /\ pc' = "params_done"
    /\ UNCHANGED <<text, kind, tag, plist, msg, out, back>>

\* One iteration of the for loop of MessageTag.unescape
UnescapeIteration ==
    /\ pc = "unescape_loop" /\ out.i <= Len(text)
    /\ LET char == text[out.i]
       IN  out' = IF out.escaped
                  THEN [i |-> out.i + 1,
                        new_value |-> Append(out.new_value,
                                             IF char \in EscapeKeys
                                             THEN TAG_VALUE_ESCAPES[char] ELSE char),
                        escaped |-> FALSE]
                  ELSE IF char = "\\"
                  THEN [i |-> out.i + 1, new_value |-> out.new_value, escaped |-> TRUE]
                  ELSE [i |-> out.i + 1, new_value |-> Append(out.new_value, char),
                        escaped |-> FALSE]
    /\ UNCHANGED <<pc, text, kind, tag, plist, msg, back>>

\* The for loop of MessageTag.unescape ends: the value is used up
UnescapeExit ==
    /\ pc = "unescape_loop" /\ out.i > Len(text)
    /\ pc' = "unescape_done"
    /\ UNCHANGED <<text, kind, tag, plist, msg, out, back>>

\* One iteration of the while loop of String.lstrip, or its end
LstripIteration ==
    /\ pc = "lstrip_loop"
    /\ IF out < Len(msg.value)
          /\ String___contains__(back, String___getitem__(msg, Index(out)))
       THEN out' = out + 1 /\ pc' = pc
       ELSE out' = SliceFrom(msg, out) /\ pc' = "lstrip_done"
    /\ UNCHANGED <<text, kind, tag, plist, msg, back>>

\* One iteration of the while loop of String.rstrip, or its end
RstripIteration ==
    /\ pc = "rstrip_loop"
    /\ IF out > 0
          /\ String___contains__(back, String___getitem__(msg, Index(out - 1)))
       THEN out' = out - 1 /\ pc' = pc
       ELSE out' = String___getitem__(msg, Slice(0, out)) /\ pc' = "rstrip_done"
    /\ UNCHANGED <<text, kind, tag, plist, msg, back>>

NextLoops ==
    \/ ParamsIteration \/ ParamsExit
    \/ UnescapeIteration \/ UnescapeExit
    \/ LstripIteration \/ RstripIteration
SpecLoops == InitLoops /\ [][NextLoops]_vars
\* Python runs the next iteration of a loop as long as there is one.
SpecLoopsFair == SpecLoops /\ WF_vars(NextLoops)

-----------------------------------------------------------------------------
(* The tag section of a line.  The caller holds a value for                 *)
(* MessageTag.escape in text, or a constructed TagList in back, and what    *)
(* was serialized in out.                                                   *)

\* size of the largest constructed TagList that is serialized: its
\* characters, plus one for each tag
MaxSectionSize == 5

\* Characters of the names and of the values of the tags of a section.
SectionNameChars == {"t", "u", ";"}
SectionValueChars == {"v", ";", " ", "\n"}

\* Lists of tags with distinct names over these characters, of total size
\* at most n.
RECURSIVE SectionTags(_)
SectionTags(n) ==
    {<<>>} \cup
    UNION {UNION {UNION {
        {<<MessageTag(name, value, has_value)>> \o r :
            r \in {r \in SectionTags(n - 1 - Len(name) - Len(value)) :
                      \A i \in 1..Len(r) : r[i].name # name}}
        : has_value \in BOOLEAN}
        : value \in Str(SectionValueChars, n - 1 - Len(name))}
        : name \in Str(SectionNameChars, n - 1)}

\* A value to escape, or a constructed TagList.
InitSection ==
    \/ InitTag
    \/ /\ pc = "tags_obj"
       /\ back \in SectionTags(MaxSectionSize)
       /\ text = <<>> /\ kind = "str" /\ tag = NoTag /\ plist = NoParams
       /\ msg = NoMessage /\ out = <<>>

NextSection == NextTag \/ TagListStr
SpecSection == InitSection /\ [][NextSection]_vars

Init ==
    \/ InitTag \/ InitParams \/ InitMsg \/ InitParse
    \/ InitEq \/ InitPrefix \/ InitTagObj \/ InitTagList
    \/ InitCap \/ InitCapList \/ InitString \/ InitCasemap
    \/ InitHash \/ InitSearch \/ InitDerive \/ InitMask
    \/ InitLoops \/ InitSection
Next ==
    \/ NextTag \/ NextParams \/ NextMsg \/ NextParse
    \/ NextEq \/ NextPrefix \/ NextTagObj \/ NextUnescape \/ NextTagList
    \/ NextCap \/ NextCapList \/ NextString \/ NextHash
    \/ NextSearch \/ NextDerive \/ NextMask
    \/ NextLoops
Spec == Init /\ [][Next]_vars

-----------------------------------------------------------------------------
(* Properties of the tag functions, under SpecTag. *)

\* A tag name as C2 takes it: no "=" and no ";".
NameLike(t) == ~Contains(t, TAG_VALUE_SEP) /\ ~Contains(t, TAGS_SEP)

\* The text is a name followed by a single "=".
NameEquals(t) == t # <<>> /\ Last(t) = TAG_VALUE_SEP /\ NameLike(Front(t))

\* C2: parsing a bare name n records has_value = FALSE and serializes back to
\* n; parsing n= records has_value = TRUE with the value "" and serializes
\* back to n=; the two serializations differ.
C2_ValuePresence ==
    pc = "tag_str" =>
        /\ NameLike(text) =>
              /\ tag.name = text /\ ~tag.has_value /\ tag.value = <<>>
              /\ out = text
              /\ out # MessageTag_str(MessageTag_parse(text \o <<TAG_VALUE_SEP>>))
        /\ NameEquals(text) =>
              /\ tag.name = Front(text) /\ tag.has_value /\ tag.value = <<>>
              /\ out = text

\* C2's case: a name followed by "=" was parsed and serialized.
C2_Witness ==
    /\ pc = "tag_str"
    /\ Len(text) >= 2 /\ NameEquals(text)
    /\ tag.has_value /\ out = text

\* C3: unescape(escape(v)) = v for every value v.
C3_EscapeInvertible == pc = "unescaped" => back = text

\* C3's case: a value with a backslash and an escaped character went through both.
C3_Witness ==
    /\ pc = "unescaped"
    /\ Contains(text, "\\") /\ Contains(text, " ") /\ Contains(text, "s")
    /\ out # text /\ back = text

-----------------------------------------------------------------------------
(* Properties of ParamList, under SpecParams. *)

\* Every element but the last is non-empty, free of spaces, and does not
\* start with ":".
MiddlesPlain(items) ==
    \A i \in 1..(Len(items) - 1) :
        /\ items[i] # <<>>
        /\ ~Contains(items[i], PARAM_SEP)
        /\ ~StartsWith(items[i], TRAIL_SENTINEL)

\* C4: a ParamList whose elements other than the last are plain re-parses
\* from its serialization to the same items, whatever its has_trail flag.
C4_Reparse ==
    pc = "param_reparsed" /\ MiddlesPlain(plist.items) => back.items = plist.items

\* C4's case: the flag is unset, the last element holds a space, and the list
\* came back.
C4_Witness ==
    /\ pc = "param_reparsed"
    /\ ~plist.has_trail /\ Len(plist.items) = 2
    /\ Contains(Last(plist.items), PARAM_SEP)
    /\ back.items = plist.items /\ back.has_trail

\* The serialization C5 states: nothing for an empty list; the earlier
\* elements joined by single spaces, then (after one space when there are
\* earlier elements) ":" and the last element, when the flag is set or the
\* last element holds a space, starts with ":" or is empty; otherwise all
\* elements joined by single spaces.
C5_Expected(p) ==
    LET last == Last(p.items)
        forced == \/ p.has_trail
                  \/ \E i \in 1..Len(last) : last[i] = " "
                  \/ (Len(last) > 0 /\ last[1] = ":")
                  \/ Len(last) = 0
        earlier == Join(<<" ">>, Front(p.items))
    IN  IF Len(p.items) = 0 THEN <<>>
        ELSE IF forced
        THEN earlier \o (IF Len(p.items) > 1 THEN <<" ">> ELSE <<>>) \o <<":">> \o last
        ELSE Join(<<" ">>, p.items)

\* C5: str(p) follows the serialization rule.
C5_StrRule == pc \in {"param_str", "param_reparsed"} => out = C5_Expected(plist)

\* C5's case: the spec's example shape, ["a", "a "] without the flag gives "a :a ".
C5_Witness ==
    /\ pc = "param_str"
    /\ plist = ParamList(<< <<"a">>, <<"a", " ">> >>, FALSE)
    /\ out = <<"a", " ", ":", "a", " ">>

\* Position i of t begins a space-delimited token.
TokenStart(t, i) == i = 1 \/ t[i - 1] = " "

\* The non-empty space-delimited tokens of t, in order.
Tokens(t) ==
    LET starts == {i \in 1..Len(t) : TokenStart(t, i) /\ t[i] # " "}
        stop(i) == CHOOSE e \in i..Len(t) :
                      /\ \A j \in i..e : t[j] # " "
                      /\ (e = Len(t) \/ t[e + 1] = " ")
        nth(k) == CHOOSE i \in starts : Cardinality({j \in starts : j <= i}) = k
    IN  [k \in 1..Cardinality(starts) |-> SubSeq(t, nth(k), stop(nth(k)))]

\* The parse C6 states: the tokens before the first token that starts with
\* ":", then everything after that ":"; without such a token, all tokens.
C6_Expected(t) ==
    LET colons == {i \in 1..Len(t) : TokenStart(t, i) /\ t[i] = ":"}
    IN  IF colons = {} THEN [items |-> Tokens(t), has_trail |-> FALSE]
        ELSE LET c == CHOOSE i \in colons : \A j \in colons : i <= j
             IN  [items |-> Append(Tokens(SubSeq(t, 1, c - 1)), SubSeq(t, c + 1, Len(t))),
                  has_trail |-> TRUE]

\* C6: ParamList.parse takes the space-delimited tokens, skips the empty
\* ones, and ends at the first token that starts with ":", whose remainder
\* is the last parameter with has_trail = TRUE.
C6_ParseRule == pc = "param_parsed" => plist = C6_Expected(text)

\* C6's case: leading and doubled spaces were skipped and a trailing
\* parameter with a space in it was taken.
C6_Witness ==
    /\ pc = "param_parsed"
    /\ StartsWith(text, " ")
    /\ \E i \in 1..(Len(text) - 1) : text[i] = " " /\ text[i + 1] = " "
    /\ plist.has_trail /\ Len(plist.items) = 2
    /\ Contains(Last(plist.items), " ")

-----------------------------------------------------------------------------
(* Properties of Message.__str__ and of the round trip, under SpecMsg. *)

\* The messages C1 quantifies over.
Conforming(m) ==
    /\ m.tags # None =>
          \A i \in 1..Len(m.tags[1]) :
              LET name == m.tags[1][i].name
              IN  name # <<>> /\ ~Contains(name, ";") /\ ~Contains(name, "=")
                  /\ ~Contains(name, " ")
    /\ m.prefix # None =>
          LET p == m.prefix[1]
          IN  /\ ~StartsWith(p.nick, ":")
              /\ ~Contains(p.nick, "!") /\ ~Contains(p.nick, "@") /\ ~Contains(p.nick, " ")
              /\ ~Contains(p.user, "@") /\ ~Contains(p.user, " ")
              /\ ~Contains(p.host, " ")
    /\ m.command # <<>> /\ Upper(m.command) = m.command
    /\ ~Contains(m.command, " ")
    /\ ~StartsWith(m.command, "@") /\ ~StartsWith(m.command, ":")
    /\ MiddlesPlain(m.parameters.items)

\* C1: every conforming message is returned, equal, by parsing its own
\* serialization.
C1_RoundTrip ==
    pc = "msg_reparsed" /\ Conforming(msg) => ~back.raised /\ Message_eq(back, msg)

\* No field of the prefix holds a line feed.
PrefixOnOneLine(m) ==
    m.prefix # None =>
        ~Contains(m.prefix[1].nick \o m.prefix[1].user \o m.prefix[1].host, "\n")

\* The round trip of the conforming messages whose prefix holds no line feed
\* (the part of C1 that PREFIX_RE does not break).
RoundTripOnOneLine ==
    pc = "msg_reparsed" /\ Conforming(msg) /\ PrefixOnOneLine(msg)
        => ~back.raised /\ Message_eq(back, msg)

\* The rendered form of each component, as C9 names them.
Rendered(m) ==
    << IF m.tags = None THEN <<>> ELSE <<"@">> \o TagList_str(m.tags[1]),
       IF m.prefix = None THEN <<>> ELSE <<":">> \o Prefix_str(m.prefix[1]),
       m.command,
       ParamList_str(m.parameters) >>

\* C9: str(m) is the rendered components, in the order tags, prefix,
\* command, parameters, without the empty ones, joined by one space each.
C9_StrRule ==
    pc \in {"msg_str", "msg_reparsed"} => out = Join(<<" ">>, NonEmpty(Rendered(msg)))

\* C9's case: empty tags render as "@", an absent prefix and an empty
\* command are left out, and a single empty parameter renders as ":".
C9_Witness ==
    /\ pc = "msg_str"
    /\ msg.tags = Some(<<>>) /\ msg.prefix = None /\ msg.command = <<>>
    /\ msg.parameters.items = << <<>> >>
    /\ out = <<"@", " ", ":">>

-----------------------------------------------------------------------------
(* Properties of Message.parse, under SpecParse. *)

\* The line as text: bytes are decoded first.
Line == IF kind \in ByteKinds THEN Decode(text) ELSE text

\* t without its leading section, when it starts with the marker: the text
\* after the first space (nothing, when there is no space).
AfterSection(t, marker) ==
    IF StartsWith(t, marker) THEN Partition(t, " ").tail ELSE t

\* The section body is empty: the marker stands alone or a space follows it.
EmptySection(t, marker) ==
    StartsWith(t, marker) /\ (Len(t) = 1 \/ t[2] = " ")

Returned == pc = "parsed" /\ ~msg.raised

\* What C7 says of the Message that Message.parse gives.
AbsentOrEmpty ==
    LET rest == AfterSection(Line, "@")
    IN  /\ (msg.tags = None) <=> ~StartsWith(Line, "@")
        /\ (msg.prefix = None) <=> ~StartsWith(rest, ":")
        /\ EmptySection(Line, "@") => msg.tags = Some(<<>>)
        /\ EmptySection(rest, ":") => msg.prefix = Some(Prefix(<<>>, <<>>, <<>>))

\* C7: for every line, tags is None exactly when the line does not start
\* with "@", prefix is None exactly when the text after the tag section does
\* not start with ":", and a marker with an empty body gives an empty
\* TagList or an all-empty Prefix.
C7_AbsentVsEmpty == pc \in {"parsed", "parse_raised"} => Returned /\ AbsentOrEmpty

\* The same, of the lines for which Message.parse returns.
AbsentVsEmptyWhenReturned == pc = "parsed" => AbsentOrEmpty

\* What C8 says of the Message that Message.parse gives.
CommandAndParams ==
    LET rest == AfterSection(AfterSection(Line, "@"), ":")
        token == Partition(rest, " ")
    IN  /\ msg.command = Upper(token.head)
        /\ msg.parameters = ParamList_parse(token.tail)
        /\ ~Contains(msg.command, "c")
        /\ text \in {LowerCommand, UpperCommand} => msg.command = UpperCommand
        /\ text = ExampleLine =>
              /\ Len(msg.tags[1]) = 1
              /\ msg.tags[1][1].name = <<"t", "i", "m", "e">>
              /\ msg.tags[1][1].value = SubSeq(ExampleLine, 7, 30)
              /\ msg.prefix = Some(Prefix(<<"n", "i", "c", "k">>, <<"u", "s", "e", "r">>,
                                          <<"h", "o", "s", "t">>))
              /\ msg.command = <<"P", "R", "I", "V", "M", "S", "G">>
              /\ msg.parameters =
                     ParamList(<< <<"#", "c", "h", "a", "n">>,
                                  <<"h", "e", "l", "l", "o", " ", "w", "o", "r", "l", "d">> >>,
                               TRUE)

\* C8: for every line, the command is the upper-cased token that follows the
\* tag and prefix sections and the parameters are ParamList.parse of the text
\* after that token; the specification's example lines parse as it says.
C8_CommandStage == pc \in {"parsed", "parse_raised"} => Returned /\ CommandAndParams

\* The same, of the lines for which Message.parse returns.
CommandStageWhenReturned == pc = "parsed" => CommandAndParams

\* C10: Message.parse returns a Message for every line, as str or as bytes,
\* and never raises.
C10_Total == pc # "line" => pc = "parsed" /\ ~msg.raised

-----------------------------------------------------------------------------
(* Properties of Message comparison, under SpecEq. *)

\* Two tag lists hold the same names with the same values.
SameTags(a, b) ==
    /\ \A i \in 1..Len(a) : \E j \in 1..Len(b) : a[i].name = b[j].name /\ a[i].value = b[j].value
    /\ \A j \in 1..Len(b) : \E i \in 1..Len(a) : a[i].name = b[j].name /\ a[i].value = b[j].value

\* Tags, prefix, command and parameters are pairwise equal.
PairwiseEqual(a, b) ==
    /\ IF a.tags = None \/ b.tags = None THEN a.tags = b.tags
       ELSE SameTags(a.tags[1], b.tags[1])
    /\ a.prefix = b.prefix
    /\ a.command = b.command
    /\ a.parameters.items = b.parameters.items

\* The result of comparing m with the Message a line parses to; the
\* comparison raises when the parse does.
AsParsed(m, k, line) ==
    LET parsed == Message_parse(k, line)
    IN  IF parsed.raised
        THEN [eq |-> ParseError, ne |-> ParseError, req |-> ParseError, rne |-> ParseError]
        ELSE [eq |-> Bool(PairwiseEqual(m, parsed)), ne |-> Bool(~PairwiseEqual(m, parsed)),
              req |-> Bool(PairwiseEqual(m, parsed)), rne |-> Bool(~PairwiseEqual(m, parsed))]

Unequal == [eq |-> "False", ne |-> "True", req |-> "False", rne |-> "True"]

\* C11 as stated: a str compares as its parse, two Messages are equal iff
\* their components are pairwise equal, and a value of any other type is
\* unequal, in either order, without raising.
C11_AsStated ==
    pc = "compared" =>
        /\ kind = "str" => out = AsParsed(msg, "str", text)
        /\ kind = "Message" => out.eq = Bool(PairwiseEqual(msg, back))
        /\ kind \notin {"str", "Message"} => out = Unequal

\* C11: a str or bytes line compares as the Message it parses to; two
\* Messages are equal iff their tags, prefix, command and parameters are
\* pairwise equal; a value of any type other than Message, str and bytes is
\* unequal ("==" false, "!=" true) in either operand order, without raising.
C11_Equality ==
    pc = "compared" =>
        /\ kind \in {"str", "bytes"} => out = AsParsed(msg, kind, text)
        /\ kind = "Message" => out.eq = Bool(PairwiseEqual(msg, back))
        /\ kind \notin {"str", "bytes", "Message"} => out = Unequal

\* C11's case: a Message with an empty tag list was found equal to the bytes
\* line that parses to it.
C11_Witness ==
    /\ pc = "compared"
    /\ kind = "bytes" /\ text = <<"@", " ", "c">>
    /\ msg.tags = Some(<<>>) /\ msg.command = <<"C">>
    /\ out.eq = "True" /\ out.req = "True" /\ out.ne = "False"

-----------------------------------------------------------------------------
(* Properties of Prefix, under SpecPrefix. *)

\* The decomposition C12 states: the nick is everything before the first "!"
\* or "@"; after a "!" the user runs to the next "@" or to the end; the host
\* is everything after that "@".
C12_Expected(t) ==
    LET seps == {i \in 1..Len(t) : t[i] \in {"!", "@"}}
        first == CHOOSE i \in seps : \A j \in seps : i <= j
        after == SubSeq(t, first + 1, Len(t))
        ats == {i \in 1..Len(after) : after[i] = "@"}
        at == CHOOSE i \in ats : \A j \in ats : i <= j
    IN  IF seps = {} THEN [nick |-> t, user |-> <<>>, host |-> <<>>]
        ELSE IF t[first] = "@"
        THEN [nick |-> SubSeq(t, 1, first - 1), user |-> <<>>, host |-> after]
        ELSE IF ats = {}
        THEN [nick |-> SubSeq(t, 1, first - 1), user |-> after, host |-> <<>>]
        ELSE [nick |-> SubSeq(t, 1, first - 1), user |-> SubSeq(after, 1, at - 1),
              host |-> SubSeq(after, at + 1, Len(after))]

\* C12: Prefix.parse returns for every string, with the nick, user and host
\* of the stated decomposition; the empty string gives the all-empty Prefix.
C12_Decomposition ==
    pc \in {"prefix_parsed", "prefix_raised"} =>
        pc = "prefix_parsed" /\ back = C12_Expected(text)

\* The same, of the texts that hold no line feed and do not start with ":"
\* (PREFIX_RE takes a leading ":" for itself).
DecompositionOnOneLine ==
    pc \in {"prefix_parsed", "prefix_raised"}
    /\ ~Contains(text, "\n") /\ ~StartsWith(text, ":")
        => pc = "prefix_parsed" /\ back = C12_Expected(text)

\* Prefix.parse raises exactly on a line feed that is not the last character
\* of the text.
RaisesOnInnerLineFeed ==
    pc \in {"prefix_parsed", "prefix_raised"} =>
        (pc = "prefix_raised" <=> Contains(Front(text), "\n"))

\* C13 as stated: bool(p) is true iff p.nick is not empty.
C13_NickOnly == pc = "prefix_bool" => (out <=> back.nick # <<>>)

\* C13: bool(p) is true iff at least one of p.nick, p.user and p.host is not
\* empty.
C13_AnyField ==
    pc = "prefix_bool" =>
        (out <=> (back.nick # <<>> \/ back.user # <<>> \/ back.host # <<>>))

\* C13's case: a Prefix with an empty nick and a host is true.
C13_Witness ==
    /\ pc = "prefix_bool"
    /\ back.nick = <<>> /\ back.user = <<>> /\ back.host # <<>>
    /\ out = TRUE

-----------------------------------------------------------------------------
(* Properties of constructed MessageTags, under SpecTagObj. *)

\* C14: a == b iff the names are equal and the values are equal, whatever
\* the has_value flags; MessageTag.parse("a") == MessageTag.parse("a=").
C14_NameValueOnly ==
    pc = "tag_compared" =>
        /\ out <=> (tag.name = back.name /\ tag.value = back.value)
        /\ tag = MessageTag_parse(<<"a">>) /\ back = MessageTag_parse(<<"a", "=">>) => out

\* C14's case: the parse of "a" and the parse of "a=" differ in has_value
\* and are equal.
C14_Witness ==
    /\ pc = "tag_compared"
    /\ tag = MessageTag_parse(<<"a">>) /\ back = MessageTag_parse(<<"a", "=">>)
    /\ tag.has_value # back.has_value
    /\ out = TRUE

\* C15 as stated: a tag with has_value = FALSE serializes as its bare name, a
\* tag with has_value = TRUE as name, "=" and the escaped value.
C15_ByFlag ==
    pc = "tag_obj_str" =>
        out = IF tag.has_value THEN tag.name \o <<"=">> \o escape(tag.value) ELSE tag.name

\* C15: a tag serializes as its bare name when has_value = FALSE and the
\* value is empty, and as name, "=" and the escaped value otherwise: when
\* has_value = TRUE (also with an empty value) or the value is not empty.
C15_ByFlagOrValue ==
    pc = "tag_obj_str" =>
        out = IF tag.has_value \/ Len(tag.value) > 0
              THEN tag.name \o <<"=">> \o escape(tag.value)
              ELSE tag.name

\* C15's case: a tag constructed with a value and without the flag
\* serializes with its value.
C15_Witness ==
    /\ pc = "tag_obj_str"
    /\ ~tag.has_value /\ tag.name = <<"a">> /\ tag.value = <<";">>
    /\ out = <<"a", "=", "\\", ":">>

-----------------------------------------------------------------------------
(* Properties of MessageTag.unescape, under SpecUnescape. *)

\* The character an escape letter stands for: the table's, or the letter
\* itself when the table does not have it.
C16_Escaped(c) ==
    CASE c = "s" -> " "
      [] c = ":" -> ";"
      [] c = "r" -> "\r"
      [] c = "n" -> "\n"
      [] OTHER -> c

\* The lenient decoding C16 states: a backslash and the character after it
\* give one character; a backslash that ends the text gives nothing; every
\* other character stands for itself.
RECURSIVE C16_Expected(_)
C16_Expected(t) ==
    IF Len(t) = 0 THEN <<>>
    ELSE IF t[1] # "\\" THEN <<t[1]>> \o C16_Expected(SubSeq(t, 2, Len(t)))
    ELSE IF Len(t) = 1 THEN <<>>
    ELSE <<C16_Escaped(t[2])>> \o C16_Expected(SubSeq(t, 3, Len(t)))

\* C16: MessageTag.unescape returns, for every text, its lenient decoding: an
\* unknown escape gives the escaped character itself and a lone backslash at
\* the end is dropped.
C16_Lenient == pc = "text_unescaped" => back = C16_Expected(text)

\* C16's case: an unknown escape followed by a lone backslash.
C16_Witness ==
    /\ pc = "text_unescaped"
    /\ text = <<"\\", "a", "\\">>
    /\ back = <<"a">>

-----------------------------------------------------------------------------
(* Properties of TagList.parse, under SpecTagList. *)

\* What C17 says of the TagList d parsed from t: one tag for each distinct
\* name among the non-empty ";"-separated segments, at the position of the
\* name's first segment, with the content of the name's last segment.
C17_Expected(t, d) ==
    LET segs == NonEmpty(Split(t, ";"))
        parsed(i) == MessageTag_parse(segs[i])
        firsts == {i \in 1..Len(segs) : \A j \in 1..(i - 1) : parsed(j).name # parsed(i).name}
        nth(k) == CHOOSE i \in firsts : Cardinality({j \in firsts : j <= i}) = k
        last(i) == CHOOSE j \in i..Len(segs) :
                      /\ parsed(j).name = parsed(i).name
                      /\ \A l \in (j + 1)..Len(segs) : parsed(l).name # parsed(i).name
    IN  /\ Len(d) = Cardinality({parsed(i).name : i \in 1..Len(segs)})
        /\ \A k \in 1..Len(d) : d[k] = parsed(last(nth(k)))

\* C17: TagList.parse keeps one tag per distinct name, where the name first
\* occurs and with the value of its last occurrence; the parse of
\* "a=1;b;a=2" serializes as "a=2;b".
C17_LastWinsFirstPlace ==
    pc \in {"tags_parsed", "tags_str"} =>
        /\ C17_Expected(text, back)
        /\ pc = "tags_str" /\ text = RepeatedName => out = <<"a", "=", "2", ";", "b">>

\* C17's case: "a=1;b;a=2" was parsed and serialized.
C17_Witness ==
    /\ pc = "tags_str"
    /\ text = RepeatedName
    /\ Len(back) = 2
    /\ out = <<"a", "=", "2", ";", "b">>

-----------------------------------------------------------------------------
(* Properties of Cap, under SpecCap. *)

\* The parse C18 states: the name is the text before the first "=", the
\* value the text after it, None when that is empty or there is no "=".
C18_Parsed(t) ==
    LET eqs == {i \in 1..Len(t) : t[i] = "="}
        first == CHOOSE i \in eqs : \A j \in eqs : i <= j
    IN  IF eqs = {} THEN [name |-> t, value |-> None]
        ELSE IF first = Len(t) THEN [name |-> SubSeq(t, 1, first - 1), value |-> None]
        ELSE [name |-> SubSeq(t, 1, first - 1), value |-> Some(SubSeq(t, first + 1, Len(t)))]

\* C18 as stated: Cap.parse splits on the first "="; str(cap) is the name
\* alone if the value is None, and name, "=" and the value otherwise.
C18_AsStated ==
    /\ pc = "cap_parsed" => back = C18_Parsed(text)
    /\ pc = "cap_str" =>
          out = IF back.value = None THEN back.name
                ELSE back.name \o <<"=">> \o back.value[1]

\* C18: Cap.parse splits on the first "=", and an empty or absent right-hand
\* side gives value = None; str(cap) is the name alone if the value is None
\* or empty, and name, "=" and the value otherwise.
C18_ParseAndStr ==
    /\ pc = "cap_parsed" => back = C18_Parsed(text)
    /\ pc = "cap_str" =>
          out = IF back.value = None \/ back.value = Some(<<>>) THEN back.name
                ELSE back.name \o <<"=">> \o back.value[1]

\* C18's case: a text with two "=" was split at the first and serialized back.
C18_Witness ==
    /\ pc = "cap_str"
    /\ text = <<"a", "=", "=", "a">>
    /\ back.name = <<"a">> /\ back.value = Some(<<"=", "a">>)
    /\ out = text

-----------------------------------------------------------------------------
(* Properties of CapList.parse, under SpecCapList. *)

\* t without one leading ":" and without leading and trailing whitespace.
C19_Rest(t) ==
    LET body == IF Len(t) > 0 /\ t[1] = ":" THEN SubSeq(t, 2, Len(t)) ELSE t
        inner == {i \in 1..Len(body) : body[i] \notin {" ", "\t", "\n", "\r"}}
        lo == CHOOSE i \in inner : \A j \in inner : i <= j
        hi == CHOOSE i \in inner : \A j \in inner : i >= j
    IN  IF inner = {} THEN <<>> ELSE SubSeq(body, lo, hi)

\* The pieces of s between its single spaces.
C19_Tokens(s) ==
    LET spaces == {i \in 1..Len(s) : s[i] = " "}
        starts == {1} \cup {i + 1 : i \in spaces}
        stop(i) == CHOOSE e \in (i - 1)..Len(s) :
                      /\ \A j \in i..e : s[j] # " "
                      /\ (e = Len(s) \/ s[e + 1] = " ")
        nth(k) == CHOOSE i \in starts : Cardinality({j \in starts : j <= i}) = k
    IN  [k \in 1..Cardinality(starts) |-> SubSeq(s, nth(k), stop(nth(k)))]

\* The list C19 states: nothing when nothing is left of the text, else the
\* Cap of each token of what is left.
C19_Expected(t) ==
    LET rest == C19_Rest(t)
        tokens == C19_Tokens(rest)
    IN  IF rest = <<>> THEN <<>>
        ELSE [k \in 1..Len(tokens) |-> C18_Parsed(tokens[k])]

\* C19: CapList.parse strips one leading ":" and the surrounding whitespace,
\* splits the rest on single spaces and parses each token as a Cap; when
\* nothing is left the list is empty and holds no empty Cap.
C19_CapListParse == pc = "caps_parsed" => back = C19_Expected(text)

\* The same, of the texts that are empty once one leading ":" is removed or
\* hold something besides whitespace after it.
CapListParseUnlessBlank ==
    pc = "caps_parsed"
    /\ (text \in {<<>>, <<":">>} \/ C19_Rest(text) # <<>>)
        => back = C19_Expected(text)

\* A text of whitespace alone, after an optional ":", gives a list of one
\* empty Cap.
BlankGivesEmptyCap ==
    pc = "caps_parsed" /\ text \notin {<<>>, <<":">>} /\ C19_Rest(text) = <<>>
        => back = <<[name |-> <<>>, value |-> None]>>

-----------------------------------------------------------------------------
(* Properties of String comparison, under SpecString. *)

\* The lower-case form of a character under a casemap: the letters in every
\* casemap, "[" in both RFC1459 casemaps, "^" in RFC1459 only.
C20_Lower(c, casemap) ==
    CASE c = "A" -> "a"
      [] c = "B" -> "b"
      [] c = "[" /\ casemap \in {RFC1459, STRICT_RFC1459} -> "{"
      [] c = "^" /\ casemap = RFC1459 -> "~"
      [] OTHER -> c

C20_Folded(s, casemap) == [i \in 1..Len(s) |-> C20_Lower(s[i], casemap)]

\* The code points of a text.
C20_Codes(s) == [i \in 1..Len(s) |-> ord[s[i]]]

\* x precedes y in the order of plain strings.
C20_Before(x, y) ==
    LET cx == C20_Codes(x)
        cy == C20_Codes(y)
        common == {n \in 0..Len(cx) : n <= Len(cy) /\ SubSeq(cx, 1, n) = SubSeq(cy, 1, n)}
        n == CHOOSE m \in common : \A l \in common : l <= m
    IN  IF n = Len(cx) THEN n < Len(cy)
        ELSE IF n = Len(cy) THEN FALSE
        ELSE cx[n + 1] < cy[n + 1]

C20_Apply(op, x, y) ==
    CASE op = "<" -> C20_Before(x, y)
      [] op = "<=" -> ~C20_Before(y, x)
      [] op = "==" -> x = y
      [] op = "!=" -> x # y
      [] op = ">" -> C20_Before(y, x)
      [] op = ">=" -> ~C20_Before(x, y)

\* C20: for each of <, <=, ==, !=, >, >=, comparing two operands of which at
\* least one is a String gives the operator applied to their folded forms,
\* each String folded under its own casemap and a plain str under the
\* casemap of the String it is compared with; String("A") == "a" and
\* "a" == String("A") hold.
C20_FoldedCompare ==
    pc = "string_compared" =>
        LET cl == IF msg.casemap = None THEN back.casemap ELSE msg.casemap
            cr == IF back.casemap = None THEN msg.casemap ELSE back.casemap
        IN  /\ \A op \in Operators :
                  out[op] = C20_Apply(op, C20_Folded(msg.value, cl), C20_Folded(back.value, cr))
            /\ {msg.value, back.value} = {<<"A">>, <<"a">>} => out["=="]

\* C20's case: the plain str "[" on the left of String("{A", RFC1459): a
\* proper prefix of it under the casemap of the String, after it as plain text.
C20_Witness ==
    /\ pc = "string_compared"
    /\ msg = PlainStr(<<"[">>) /\ back = String(<<"{", "A">>, RFC1459)
    /\ ~out["=="] /\ out["!="] /\ out["<="] /\ ~out[">="] /\ out["<"] /\ ~out[">"]

-----------------------------------------------------------------------------
(* Properties of the predefined casemaps, under SpecCasemap. *)

\* The pairs of distinct characters a casemap identifies, of the characters
\* of the model.
C21_Pairs(casemap) ==
    {<<"A", "a">>, <<"B", "b">>, <<"Z", "z">>}
    \cup (IF casemap \in {RFC1459, STRICT_RFC1459}
          THEN {<<"[", "{">>, <<"\\", "|">>, <<"]", "}">>} ELSE {})
    \cup (IF casemap = RFC1459 THEN {<<"^", "~">>} ELSE {})

\* C21: two characters compare equal under a casemap iff they are the same
\* character or a pair of the casemap: the letters under ASCII; the letters
\* and "[" "\" "]" with "{" "|" "}" under STRICT_RFC1459; those and "^" with
\* "~" under RFC1459.  A character of no pair equals itself only.
C21_FoldsItsRange ==
    pc = "string_compared" /\ Len(msg.value) = 1 /\ Len(back.value) = 1 =>
        LET casemap == IF msg.casemap = None THEN back.casemap ELSE msg.casemap
            c == msg.value[1]
            d == back.value[1]
        IN  /\ out["=="] = (c = d \/ <<c, d>> \in C21_Pairs(casemap)
                                  \/ <<d, c>> \in C21_Pairs(casemap))
            /\ out["!="] = ~out["=="]

\* C21's case: "^" and "~" compared under STRICT_RFC1459 are different, and
\* "]" and "}" are equal.
C21_Witness ==
    /\ pc = "string_compared"
    /\ msg.casemap = STRICT_RFC1459 /\ back.casemap = None
    /\ \/ msg.value = <<"^">> /\ back.value = <<"~">> /\ ~out["=="]
       \/ msg.value = <<"]">> /\ back.value = <<"}">> /\ out["=="]

-----------------------------------------------------------------------------
(* Properties of hash(String), under SpecHash. *)

\* C22: two Strings that compare equal have equal hashes, and the hash of a
\* String is the hash of its text folded under its casemap.
C22_HashConsistent ==
    pc = "hashed" =>
        /\ out.eq => out.left = out.right
        /\ out.left = C20_Codes(C20_Folded(msg.value, msg.casemap))
        /\ out.right = C20_Codes(C20_Folded(back.value, back.casemap))

\* C22's case: "{" under ASCII and "[" under STRICT_RFC1459 differ as text
\* and in casemap, compare equal and hash alike.
C22_Witness ==
    /\ pc = "hashed"
    /\ msg = String(<<"{">>, ASCII) /\ back = String(<<"[">>, STRICT_RFC1459)
    /\ out.eq /\ out.left = out.right

-----------------------------------------------------------------------------
(* Properties of the Strings derived from a String, under SpecDerive. *)

\* C23: s.lower().lower() has the characters of s.lower(), and
\* s.upper().upper() those of s.upper(), under each casemap.
C23_Idempotent ==
    pc \in {"lower_lower", "upper_upper"} => out[1].value = back[1].value

\* C23's case: "A[^" under RFC1459 was lowered to "a{~" and lowered again.
C23_Witness ==
    /\ pc = "lower_lower"
    /\ msg = String(<<"A", "[", "^">>, RFC1459)
    /\ back[1].value = <<"a", "{", "~">> /\ out[1].value = <<"a", "{", "~">>

\* The states in which a method has returned Strings derived from msg.
Derived ==
    pc \in {"lower", "lower_lower", "upper", "upper_upper", "casefold", "swapcase",
            "capitalize", "getitem", "add", "partition", "rpartition", "strip"}

\* C24: every String returned by indexing or slicing s, by lower, upper,
\* casefold, swapcase or capitalize, by s + other, by partition or rpartition
\* or by strip has the casemap of s, and s is what it was.
C24_CasemapKept ==
    Derived =>
        /\ Len(out) >= 1
        /\ \A i \in 1..Len(out) : out[i].casemap = msg.casemap
        /\ msg.value = text /\ msg.casemap \in Casemaps

\* C24's case: "a[" under RFC1459 partitioned on a String "{" that is under
\* ASCII: three Strings under RFC1459.
C24_Witness ==
    /\ pc = "partition"
    /\ msg = String(<<"a", "[">>, RFC1459) /\ back = String(<<"{">>, ASCII)
    /\ out = <<String(<<"a">>, RFC1459), String(<<"[">>, RFC1459), String(<<>>, RFC1459)>>

-----------------------------------------------------------------------------
(* Properties of the searches of a String, under SpecSearch. *)

\* The positions, from 0, at which sub occurs in s.
C25_Occurrences(s, sub) ==
    {i \in 0..(Len(s) - Len(sub)) : \A k \in 1..Len(sub) : s[i + k] = sub[k]}

\* C25: with s and sub the receiver and the argument folded under the
\* casemap of the receiver, contains, startswith and endswith say whether sub
\* occurs in s, at its start and at its end; find and rfind give the first
\* and the last position of sub in s, or -1 if there is none; index and
\* rindex raise ValueError if there is none and give what find and rfind
\* give otherwise.
C25_FoldedSearch ==
    pc = "searched" =>
        LET s == C20_Folded(msg.value, msg.casemap)
            sub == C20_Folded(back.value, msg.casemap)
            at == C25_Occurrences(s, sub)
        IN  /\ out.contains = (at # {})
            /\ out.startswith = (0 \in at)
            /\ out.endswith = (Len(s) - Len(sub) \in at)
            /\ IF at = {}
               THEN /\ out.find = -1 /\ out.rfind = -1
                    /\ out.index.raised /\ out.rindex.raised
               ELSE /\ out.find \in at /\ \A i \in at : out.find <= i
                    /\ out.rfind \in at /\ \A i \in at : out.rfind >= i
                    /\ ~out.index.raised /\ out.index.value = out.find
                    /\ ~out.rindex.raised /\ out.rindex.value = out.rfind

\* C25's case: "A[{" under RFC1459 searched for the String "{" that is
\* under ASCII: found at 1 from the left and at 2 from the right, though the
\* text holds "{" only at 2.
C25_Witness ==
    /\ pc = "searched"
    /\ msg = String(<<"A", "[", "{">>, RFC1459) /\ back = String(<<"{">>, ASCII)
    /\ out.contains /\ ~out.startswith /\ out.endswith
    /\ out.find = 1 /\ out.rfind = 2
    /\ out.index = [raised |-> FALSE, value |-> 1]
    /\ out.rindex = [raised |-> FALSE, value |-> 2]

-----------------------------------------------------------------------------
(* Properties of match_mask, under SpecMask. *)

\* The whole candidate matches the glob pattern: the candidate can be cut
\* into one piece for each character of the pattern, the piece of "?" one
\* character, the piece of "*" any text, the piece of any other character
\* that character.
C26_Glob(mask, pattern) ==
    \E cut \in [0..Len(pattern) -> 0..Len(mask)] :
        /\ cut[0] = 0 /\ cut[Len(pattern)] = Len(mask)
        /\ \A k \in 1..Len(pattern) :
              /\ cut[k - 1] <= cut[k]
              /\ pattern[k] # "*" => cut[k] = cut[k - 1] + 1
              /\ pattern[k] \notin {"*", "?"} => mask[cut[k]] = pattern[k]

\* C26: match_mask(candidate, pattern) is a boolean, true iff the whole
\* candidate matches the glob pattern.
C26_WholeGlob ==
    pc = "mask_matched" => out \in BOOLEAN /\ out = C26_Glob(text, back)

\* The same, of the candidates that hold no line feed.
WholeGlobOnOneLine ==
    pc = "mask_matched" /\ ~Contains(text, "\n") =>
        out \in BOOLEAN /\ out = C26_Glob(text, back)

\* With a line feed in the candidate: a wildcard does not stand for it, and
\* a line feed that ends the candidate need not be matched at all.
LineFeedInMask ==
    pc = "mask_matched" =>
        /\ (text = <<"\n">> /\ back = <<"?">>) => ~out
        /\ (text = <<"a", "\n", "a">> /\ back = <<"a", "*", "a">>) => ~out
        /\ (text = <<"a", "\n">> /\ back = <<"a">>) => out

-----------------------------------------------------------------------------
(* Properties of the loops, under SpecLoopsFair. *)

LoopDone == pc \in {"params_done", "unescape_done", "lstrip_done", "rstrip_done"}

\* What is left for a loop to do: the text left to scan, the characters of
\* the value not yet read, the characters not yet tested.
Remaining ==
    CASE pc = "params_loop" -> Len(text)
      [] pc = "unescape_loop" -> Len(text) + 1 - out.i
      [] pc = "lstrip_loop" -> Len(msg.value) - out
      [] pc = "rstrip_loop" -> out
      [] OTHER -> 0

\* The same after a step.
RemainingNext ==
    CASE pc' = "params_loop" -> Len(text')
      [] pc' = "unescape_loop" -> Len(text') + 1 - out'.i
      [] pc' = "lstrip_loop" -> Len(msg'.value) - out'
      [] pc' = "rstrip_loop" -> out'
      [] OTHER -> 0

\* C27: every loop reaches its end, and each iteration either ends the loop
\* (ParamList.parse at a trailing parameter) or leaves strictly less to do.
C27_Terminates ==
    /\ <>LoopDone
    /\ [][LoopDone' \/ RemainingNext < Remaining]_vars

\* C27's case: the loop of ParamList.parse ended on "a  :a" after skipping
\* an empty argument and stopping at the trailing parameter.
C27_Witness ==
    /\ pc = "params_done"
    /\ back = <<"a", " ", " ", ":", "a">>
    /\ text = <<":", "a">>
    /\ plist = ParamList(<<<<"a">>, <<"a">>>>, TRUE)

\* The loops give what the functions of the model give.
LoopsAgree ==
    /\ pc = "params_done" => plist = ParamList_parse(back)
    /\ pc = "unescape_done" => out.new_value = unescape(text)
    /\ pc = "lstrip_done" => out = lstrip(msg, Some(back))
    /\ pc = "rstrip_done" => out = rstrip(msg, Some(back))

-----------------------------------------------------------------------------
(* Properties of parsing what a parsed Message serializes to, under        *)
(* SpecFixed: msg = Message.parse(text), out = str(msg),                   *)
(* back = Message.parse(out).                                              *)

\* C28: for every line that parses, parsing str(m) of the Message m it gives
\* returns a Message equal to m.
C28_FixedPoint ==
    pc = "msg_reparsed" => ~back.raised /\ PairwiseEqual(back, msg)

\* The same, of the parsed Messages that have a command and whose prefix,
\* if any, does not begin with ":".
FixedPointWithCommand ==
    pc = "msg_reparsed"
    /\ msg.command # <<>>
    /\ (msg.prefix # None => ~StartsWith(Prefix_str(msg.prefix[1]), ":"))
        => ~back.raised /\ PairwiseEqual(back, msg)

\* A line with a leading space parses to a Message with an empty command,
\* whose first parameter is read back as the command.
EmptyCommandLost ==
    pc = "msg_reparsed" /\ text = <<" ", "c">> =>
        /\ msg.command = <<>> /\ msg.parameters.items = <<<<"c">>>>
        /\ out = <<"c">>
        /\ back.command = <<"C">> /\ back.parameters.items = <<>>

-----------------------------------------------------------------------------
(* Properties of the shape of what is parsed, under SpecShape. *)

\* A parameter that can be written as a middle parameter: not empty, without
\* a space, not starting with ":".
C29_Plain(item) == item # <<>> /\ ~Contains(item, " ") /\ item[1] # ":"

\* C29: in ParamList.parse(text) every element but the last is plain, and
\* the last is plain unless has_trail is set; the command of the Message
\* that Message.parse returns holds no space.
C29_Shape ==
    /\ pc = "param_parsed" =>
          /\ \A i \in 1..(Len(plist.items) - 1) : C29_Plain(plist.items[i])
          /\ Len(plist.items) > 0 /\ ~C29_Plain(Last(plist.items)) => plist.has_trail
    /\ pc = "parsed" => ~Contains(msg.command, " ")

\* C29's case: a text with doubled spaces and a ":" inside a token gave two
\* plain parameters and a trailing one that is empty.
C29_Witness ==
    /\ pc = "param_parsed"
    /\ text = <<"a", ":", " ", " ", "a", " ", ":">>
    /\ plist = ParamList(<< <<"a", ":">>, <<"a">>, <<>> >>, TRUE)

-----------------------------------------------------------------------------
(* Properties of the tag section, under SpecSection. *)

\* The characters that frame a line and its tag section.
C30_Framing == {";", " ", "\r", "\n"}

\* How often c occurs in s.
C30_Count(s, c) == Cardinality({i \in 1..Len(s) : s[i] = c})

\* C30: MessageTag.escape(v) holds no ";", space, CR or LF; the serialized
\* TagList whose names hold none of these characters holds one ";" between
\* two tags and no other, and no space.
C30_FramingKept ==
    /\ pc = "escaped" => \A i \in 1..Len(out) : out[i] \notin C30_Framing
    /\ pc = "tags_str"
       /\ (\A i \in 1..Len(back) : \A k \in 1..Len(back[i].name) :
               back[i].name[k] \notin C30_Framing)
          => /\ C30_Count(out, ";") = (IF back = <<>> THEN 0 ELSE Len(back) - 1)
             /\ \A i \in 1..Len(out) : out[i] \notin C30_Framing \ {";"}

\* C30's case: two tags, the first with the value ";", were serialized with
\* the value escaped and one ";" between them.
C30_Witness ==
    /\ pc = "tags_str"
    /\ back = <<MessageTag(<<"t">>, <<";">>, TRUE), MessageTag(<<"u">>, <<>>, FALSE)>>
    /\ out = <<"t", "=", "\\", ":", ";", "u">>

====
